---- MODULE Spec2Model ----
(***************************************************************************)
(* Horn & Schunck optical flow: the Python bindings of the spatio-temporal *)
(* gradient estimators (central.cpp) and of the flow solvers (flow.cc),    *)
(* over the numerical core they call.                                      *)
(*                                                                         *)
(* A float64 is modelled as an exact extended rational [n, d]: d > 0 is a  *)
(* finite value in lowest terms, d = 0 is non-finite (n = 0 NaN, n = 1     *)
(* +Inf, n = -1 -Inf). Rounding is not modelled.                           *)
(***************************************************************************)
EXTENDS Integers, Sequences, FiniteSets, TLC

(* ------------------------------ bounds --------------------------------- *)

\* Largest height and width of a configured shape.
MaxDim == 2

\* Largest iteration count passed to a solver.
MaxIter == 1

(* --------------------------- float64 values ---------------------------- *)

Abs(x) == IF x < 0 THEN -x ELSE x

Sign(x) == IF x < 0 THEN -1 ELSE IF x > 0 THEN 1 ELSE 0

RECURSIVE GCD(_, _)
GCD(a, b) == IF b = 0 THEN a ELSE GCD(b, a % b)

Norm(n, d) ==
  IF d = 0 THEN [n |-> Sign(n), d |-> 0]
  ELSE LET g == GCD(Abs(n), Abs(d))
           s == Sign(d)
       IN [n |-> (s * n) \div g, d |-> (s * d) \div g]

R(i) == [n |-> i, d |-> 1]

NaN == [n |-> 0, d |-> 0]

Inf == [n |-> 1, d |-> 0]

IsFinite(x) == x.d # 0

\* Sums and products cancel common factors before multiplying.
Add(a, b) ==
  IF a.d = 0 /\ b.d = 0 THEN (IF a.n = b.n THEN a ELSE NaN)
  ELSE IF a.d = 0 THEN a
  ELSE IF b.d = 0 THEN b
  ELSE LET g == GCD(a.d, b.d)
       IN Norm(a.n * (b.d \div g) + b.n * (a.d \div g), (a.d \div g) * b.d)

Neg(a) == [n |-> -a.n, d |-> a.d]

Sub(a, b) == Add(a, Neg(b))

Mul(a, b) ==
  IF a.d = 0 \/ b.d = 0 THEN Norm(a.n * b.n, 0)
  ELSE LET g1 == GCD(Abs(a.n), b.d)
           g2 == GCD(Abs(b.n), a.d)
       IN Norm((a.n \div g1) * (b.n \div g2), (a.d \div g2) * (b.d \div g1))

Div(a, b) == Mul(a, Norm(b.d, b.n))

(* ------------------------------- arrays -------------------------------- *)

\* The index tuples of an array of the given shape (1-D or 2-D).
Idx(shape) ==
  IF Len(shape) = 1 THEN {<<i>> : i \in 1..shape[1]}
  ELSE IF Len(shape) = 2
       THEN {<<y, x>> : y \in 1..shape[1], x \in 1..shape[2]}
       ELSE {}

\* A Python value handed to a converter: kind "array" converts to a
\* PyBlitzArrayObject with the fields below, kind "object" does not convert,
\* kind "absent" is an optional argument that was not passed.
Arr(type_num, shape, data) ==
  [kind |-> "array", type_num |-> type_num, ndim |-> Len(shape),
   shape |-> shape, data |-> data]

NotAnArray ==
  [kind |-> "object", type_num |-> "object", ndim |-> 0,
   shape |-> <<>>, data |-> [p \in {} |-> NaN]]

Absent ==
  [kind |-> "absent", type_num |-> "none", ndim |-> 0,
   shape |-> <<>>, data |-> [p \in {} |-> NaN]]

Fill(type_num, shape, c) == Arr(type_num, shape, [p \in Idx(shape) |-> R(c)])

\* Kernel literal.
Kern(type_num, a, b, c) ==
  Arr(type_num, <<3>>, [p \in Idx(<<3>>) |->
        IF p[1] = 1 THEN a ELSE IF p[1] = 2 THEN b ELSE c])

\* Image whose pixel (y, x) holds y * 3 + x: no two neighbours agree.
Ramp(type_num, shape) ==
  Arr(type_num, shape, [p \in Idx(shape) |-> R(3 * p[1] + p[2])])

\* The function f as a table of its values: TLC computes each value once
\* here, and not again at every later application.
Table(f) == CHOOSE g \in {f} : g = f

AllFinite(a) == \A p \in DOMAIN a.data : IsFinite(a.data[p])

Clamp(i, hi) == IF i < 1 THEN 1 ELSE IF i > hi THEN hi ELSE i

(* ------------- core: separable convolution and estimators -------------- *)

\* ConvX taking 0 for the pixels beyond the first and last column.
ConvX_ZeroPadded(k, B, shape) ==
  Table([p \in Idx(shape) |->
           Add(Add(Mul(k[<<1>>], IF p[2] = 1 THEN R(0) ELSE B[<<p[1], p[2] - 1>>]),
                   Mul(k[<<2>>], B[p])),
               Mul(k[<<3>>], IF p[2] = shape[2] THEN R(0) ELSE B[<<p[1], p[2] + 1>>]))])

\* 3-tap correlation along x of a 2-D buffer, replicate boundary:
\* out[i] = k[0] B[i-1] + k[1] B[i] + k[2] B[i+1].
ConvX(k, B, shape) ==
  Table([p \in Idx(shape) |->
           Add(Add(Mul(k[<<1>>], B[<<p[1], Clamp(p[2] - 1, shape[2])>>]),
                   Mul(k[<<2>>], B[p])),
               Mul(k[<<3>>], B[<<p[1], Clamp(p[2] + 1, shape[2])>>]))])

\* The same along y.
ConvY(k, B, shape) ==
  Table([p \in Idx(shape) |->
           Add(Add(Mul(k[<<1>>], B[<<Clamp(p[1] - 1, shape[1]), p[2]>>]),
                   Mul(k[<<2>>], B[p])),
               Mul(k[<<3>>], B[<<Clamp(p[1] + 1, shape[1]), p[2]>>]))])

\* The same along t, at the centre frame of a triplet: no clamping.
ConvT(k, B1, B2, B3, shape) ==
  Table([p \in Idx(shape) |->
           Add(Add(Mul(k[<<1>>], B1[p]), Mul(k[<<2>>], B2[p])), Mul(k[<<3>>], B3[p]))])

\* Ex = d along x, a along y, a along t.
GradEx(d, a, i1, i2, i3, shape) ==
  ConvT(a, ConvY(a, ConvX(d, i1, shape), shape),
           ConvY(a, ConvX(d, i2, shape), shape),
           ConvY(a, ConvX(d, i3, shape), shape), shape)

\* Ey = a along x, d along y, a along t.
GradEy(d, a, i1, i2, i3, shape) ==
  ConvT(a, ConvY(d, ConvX(a, i1, shape), shape),
           ConvY(d, ConvX(a, i2, shape), shape),
           ConvY(d, ConvX(a, i3, shape), shape), shape)

\* Et = a along x, a along y, d along t.
GradEt(d, a, i1, i2, i3, shape) ==
  ConvT(d, ConvY(a, ConvX(a, i1, shape), shape),
           ConvY(a, ConvX(a, i2, shape), shape),
           ConvY(a, ConvX(a, i3, shape), shape), shape)

\* The null pointer, and a live core estimator.
NULL == [null |-> TRUE]

Estimator(diff, avg, shape) ==
  [null |-> FALSE, shape |-> shape, diff |-> diff, avg |-> avg]

\* A kernel the core accepts: three finite entries.
KernelOk(k) == DOMAIN k = Idx(<<3>>) /\ \A p \in DOMAIN k : IsFinite(k[p])

\* bob::ip::optflow::CentralGradient(diff, avg, shape): throws on a kernel it
\* does not accept, else the new estimator.
CentralGradient_ctor(diff, avg, shape) ==
  IF KernelOk(diff) /\ KernelOk(avg)
  THEN [threw |-> FALSE, cxx |-> Estimator(diff, avg, shape)]
  ELSE [threw |-> TRUE, cxx |-> NULL]

CentralGradient_setShape(cxx, shape) ==
  [threw |-> FALSE, cxx |-> [cxx EXCEPT !.shape = shape]]

CentralGradient_setDiffKernel(cxx, k) ==
  IF KernelOk(k) THEN [threw |-> FALSE, cxx |-> [cxx EXCEPT !.diff = k]]
  ELSE [threw |-> TRUE, cxx |-> cxx]

CentralGradient_setAvgKernel(cxx, k) ==
  IF KernelOk(k) THEN [threw |-> FALSE, cxx |-> [cxx EXCEPT !.avg = k]]
  ELSE [threw |-> TRUE, cxx |-> cxx]

\* operator()(i1, i2, i3, ex, ey, et): the three gradient fields.
CentralGradient_call(cxx, i1, i2, i3) ==
  <<GradEx(cxx.diff, cxx.avg, i1, i2, i3, cxx.shape),
    GradEy(cxx.diff, cxx.avg, i1, i2, i3, cxx.shape),
    GradEt(cxx.diff, cxx.avg, i1, i2, i3, cxx.shape)>>

\* The square root of 2, the centre tap of the isotropic averaging kernel. It
\* has no exact rational value; 7/5 stands for the double nearest to it, of
\* which nothing but its being finite and neither 1 nor 2 is used.
Sqrt2 == Norm(7, 5)

\* The kernels of the fixed variants.
FixedDifference == Kern("float64", R(1), R(0), R(-1)).data

FixedAverage(type) ==
  IF type = "SobelGradient" THEN Kern("float64", R(1), R(2), R(1)).data
  ELSE IF type = "PrewittGradient" THEN Kern("float64", R(1), R(1), R(1)).data
  ELSE Kern("float64", R(1), Sqrt2, R(1)).data

\* The fixed variants are CentralGradient objects constructed with their
\* kernels.
SobelGradient_ctor(shape) ==
  CentralGradient_ctor(FixedDifference, FixedAverage("SobelGradient"), shape)

PrewittGradient_ctor(shape) ==
  CentralGradient_ctor(FixedDifference, FixedAverage("PrewittGradient"), shape)

IsotropicGradient_ctor(shape) ==
  CentralGradient_ctor(FixedDifference, FixedAverage("IsotropicGradient"), shape)

(* ----------------- central.cpp: the CentralGradient type ---------------- *)

\* The four types, by class name.
FixedTypes == {"SobelGradient", "PrewittGradient", "IsotropicGradient"}

GradientTypes == {"CentralGradient"} \cup FixedTypes

\* PyBlitzArray_Converter / PyBlitzArray_OutputConverter succeed on arrays.
Converts(o) == o.kind = "array"

\* A kernel argument the binding accepts.
IsKernel3(k) == k.type_num = "float64" /\ k.ndim = 1 /\ k.shape[1] = 3

\* An image or output argument of the right type and rank.
IsImage2D(a) == a.type_num = "float64" /\ a.ndim = 2

ShapeIs(a, height, width) == a.shape[1] = height /\ a.shape[2] = width

\* What a call leaves: the object, the C return value, the exception set.
Out(self, ret, err) == [self |-> self, ret |-> ret, err |-> err, crash |-> FALSE]

\* A dereference of a null cxx.
Crash(self) == [self |-> self, ret |-> 0, err |-> "none", crash |-> TRUE]

\* tp_new of the base type, which the fixed variants have no slot of their
\* own for: the object of the given type with a null cxx.
PyBobIpOptflowCentralGradient_new(type) == [ob_type |-> type, cxx |-> NULL]

PyBobIpOptflowCentralGradient_init(self, diff, avg, height, width) ==
  IF ~Converts(diff) \/ ~Converts(avg) THEN Out(self, -1, "TypeError")
  ELSE IF ~IsKernel3(diff) THEN Out(self, 0, "TypeError")
  ELSE IF ~IsKernel3(avg) THEN Out(self, 0, "TypeError")
  ELSE LET made == CentralGradient_ctor(diff.data, avg.data, <<height, width>>)
       IN IF made.threw THEN Out(self, -1, "RuntimeError")
          ELSE Out([self EXCEPT !.cxx = made.cxx], 0, "none")

PyBobIpOptflowCentralGradient_setShape(self, height, width) ==
  IF self.cxx.null THEN Crash(self)
  ELSE LET set == CentralGradient_setShape(self.cxx, <<height, width>>)
       IN IF set.threw THEN Out(self, -1, "RuntimeError")
          ELSE Out([self EXCEPT !.cxx = set.cxx], 0, "none")

\* setDifference whose handler of a core exception returns 0, as its
\* conversion failure does.
setDifference_CatchReturns0(self, o) ==
  IF ~Converts(o) THEN Out(self, 0, "TypeError")
  ELSE IF ~IsKernel3(o) THEN Out(self, -1, "TypeError")
  ELSE IF self.cxx.null THEN Crash(self)
  ELSE LET set == CentralGradient_setDiffKernel(self.cxx, o.data)
       IN IF set.threw THEN Out(self, 0, "RuntimeError")
          ELSE Out([self EXCEPT !.cxx = set.cxx], 0, "none")

PyBobIpOptflowCentralGradient_setDifference(self, o) ==
  IF ~Converts(o) THEN Out(self, 0, "TypeError")
  ELSE IF ~IsKernel3(o) THEN Out(self, -1, "TypeError")
  ELSE IF self.cxx.null THEN Crash(self)
  ELSE LET set == CentralGradient_setDiffKernel(self.cxx, o.data)
       IN IF set.threw THEN Out(self, -1, "RuntimeError")
          ELSE Out([self EXCEPT !.cxx = set.cxx], 0, "none")

PyBobIpOptflowCentralGradient_setAverage(self, o) ==
  IF ~Converts(o) THEN Out(self, 0, "TypeError")
  ELSE IF ~IsKernel3(o) THEN Out(self, -1, "TypeError")
  ELSE IF self.cxx.null THEN Crash(self)
  ELSE LET set == CentralGradient_setAvgKernel(self.cxx, o.data)
       IN IF set.threw THEN Out(self, -1, "RuntimeError")
          ELSE Out([self EXCEPT !.cxx = set.cxx], 0, "none")

\* What a getter or a dump hands back, or the dereference of a null cxx.
Got(value) == [crash |-> FALSE, value |-> value]

GetCrash == [crash |-> TRUE, value |-> <<>>]

\* getShape building its tuple in the order (width, height).
getShape_WidthFirst(self) ==
  IF self.cxx.null THEN GetCrash
  ELSE Got(<<self.cxx.shape[2], self.cxx.shape[1]>>)

\* Py_BuildValue("nn", shape(0), shape(1)).
PyBobIpOptflowCentralGradient_getShape(self) ==
  IF self.cxx.null THEN GetCrash
  ELSE Got(<<self.cxx.shape[1], self.cxx.shape[2]>>)

\* getDifference handing back the averaging kernel.
getDifference_Average(self) ==
  IF self.cxx.null THEN GetCrash
  ELSE Got(Arr("float64", <<3>>, self.cxx.avg))

\* A new float64 array of 3 elements holding a copy of the kernel.
PyBobIpOptflowCentralGradient_getDifference(self) ==
  IF self.cxx.null THEN GetCrash
  ELSE Got(Arr("float64", <<3>>, self.cxx.diff))

PyBobIpOptflowCentralGradient_getAverage(self) ==
  IF self.cxx.null THEN GetCrash
  ELSE Got(Arr("float64", <<3>>, self.cxx.avg))

\* The text "<name(shape)>", by its parts.
PyBobIpOptflowCentralGradient_Repr(self) ==
  IF PyBobIpOptflowCentralGradient_getShape(self).crash THEN GetCrash
  ELSE Got([name |-> self.ob_type,
            shape |-> PyBobIpOptflowCentralGradient_getShape(self).value])

\* Str printing the difference kernel under both labels.
Str_DifferenceTwice(self) ==
  IF PyBobIpOptflowCentralGradient_getDifference(self).crash THEN GetCrash
  ELSE Got([name |-> self.ob_type,
            shape |-> PyBobIpOptflowCentralGradient_getShape(self).value,
            difference |-> PyBobIpOptflowCentralGradient_getDifference(self).value.data,
            average |-> PyBobIpOptflowCentralGradient_getDifference(self).value.data])

\* The text "name(shape)\n difference: [...]\n average: [...]", by its parts:
\* tp_name of the object's type, the text of the shape tuple and the texts of
\* the two kernel arrays, each the entries in order.
PyBobIpOptflowCentralGradient_Str(self) ==
  IF PyBobIpOptflowCentralGradient_getDifference(self).crash THEN GetCrash
  ELSE Got([name |-> self.ob_type,
            shape |-> PyBobIpOptflowCentralGradient_getShape(self).value,
            difference |-> PyBobIpOptflowCentralGradient_getDifference(self).value.data,
            average |-> PyBobIpOptflowCentralGradient_getAverage(self).value.data])

\* The Sobel tp_init constructing the core object of the Prewitt variant.
SobelGradient_init_Prewitt(self, height, width) ==
  LET made == PrewittGradient_ctor(<<height, width>>)
  IN IF made.threw THEN Out(self, -1, "RuntimeError")
     ELSE Out([self EXCEPT !.cxx = made.cxx], 0, "none")

\* tp_init of the fixed variants: the shape alone; parent.cxx is set to the
\* new core object.
PyBobIpOptflowSobelGradient_init(self, height, width) ==
  LET made == SobelGradient_ctor(<<height, width>>)
  IN IF made.threw THEN Out(self, -1, "RuntimeError")
     ELSE Out([self EXCEPT !.cxx = made.cxx], 0, "none")

PyBobIpOptflowPrewittGradient_init(self, height, width) ==
  LET made == PrewittGradient_ctor(<<height, width>>)
  IN IF made.threw THEN Out(self, -1, "RuntimeError")
     ELSE Out([self EXCEPT !.cxx = made.cxx], 0, "none")

PyBobIpOptflowIsotropicGradient_init(self, height, width) ==
  LET made == IsotropicGradient_ctor(<<height, width>>)
  IN IF made.threw THEN Out(self, -1, "RuntimeError")
     ELSE Out([self EXCEPT !.cxx = made.cxx], 0, "none")

\* tp_getset of each type object: the attributes the type defines itself.
tp_getset(type) ==
  IF type = "CentralGradient" THEN {"difference", "average", "shape"} ELSE {}

\* tp_base of each type object: the fixed variants derive from the base type.
tp_base(type) == IF type \in FixedTypes THEN "CentralGradient" ELSE "object"

\* Attribute lookup: in the type, then in its base.
HasAttr(type, name) ==
  \/ name \in tp_getset(type)
  \/ tp_base(type) # "object" /\ name \in tp_getset(tp_base(type))

\* self.name = value: the setter found by the lookup, AttributeError when
\* there is none.
PyObject_SetAttr(self, name, value) ==
  IF ~HasAttr(self.ob_type, name) THEN Out(self, -1, "AttributeError")
  ELSE IF name = "difference"
    THEN PyBobIpOptflowCentralGradient_setDifference(self, value)
  ELSE IF name = "average"
    THEN PyBobIpOptflowCentralGradient_setAverage(self, value)
  ELSE PyBobIpOptflowCentralGradient_setShape(self, value[1], value[2])

\* What evaluate leaves: the C return value (0 is the null pointer, 1 a tuple),
\* the exception set, the caller's ex, ey, et after the call, the arrays of
\* the returned tuple, and the core calls made.
EvalOut(ret, err, ex, ey, et, result, invoked) ==
  [ret |-> ret, err |-> err, crash |-> FALSE, ex |-> ex, ey |-> ey, et |-> et,
   result |-> result, invoked |-> invoked]

EvalFail(err, ex, ey, et) == EvalOut(0, err, ex, ey, et, <<>>, <<>>)

\* The arguments the core functor was handed.
FunctorArgs(image1, image2, image3, ex, ey, et) ==
  [fn |-> "operator()", i1 |-> image1, i2 |-> image2, i3 |-> image3,
   ex |-> ex, ey |-> ey, et |-> et]

\* Type and rank of the three input images, in order.
ImageTypes(image1, image2, image3) ==
  IF ~IsImage2D(image1) THEN "TypeError"
  ELSE IF ~IsImage2D(image2) THEN "TypeError"
  ELSE IF ~IsImage2D(image3) THEN "TypeError"
  ELSE "none"

\* ImageShapes comparing heights alone.
ImageShapes_HeightOnly(image1, image2, image3, height, width) ==
  IF image1.shape[1] # height THEN "RuntimeError"
  ELSE IF image2.shape[1] # height THEN "RuntimeError"
  ELSE IF image3.shape[1] # height THEN "RuntimeError"
  ELSE "none"

\* Shape of the three input images against the configured one, in order.
ImageShapes(image1, image2, image3, height, width) ==
  IF ~ShapeIs(image1, height, width) THEN "RuntimeError"
  ELSE IF ~ShapeIs(image2, height, width) THEN "RuntimeError"
  ELSE IF ~ShapeIs(image3, height, width) THEN "RuntimeError"
  ELSE "none"

\* AllOrNone that looks only at ex being given without ey or et.
AllOrNone_ExOnly(ex, ey, et) ==
  ~((Converts(ex) /\ ~Converts(ey)) \/ (Converts(ex) /\ ~Converts(et)))

\* ex, ey, et are given all three or none.
AllOrNone(ex, ey, et) ==
  ~(  (Converts(ex) /\ ~Converts(ey)) \/ (Converts(ex) /\ ~Converts(et))
   \/ (Converts(ey) /\ ~Converts(ex)) \/ (Converts(ey) /\ ~Converts(et))
   \/ (Converts(et) /\ ~Converts(ex)) \/ (Converts(et) /\ ~Converts(ey)))

\* OutputCheck taking the outputs one at a time, type then shape of each.
OutputCheck_PerArgument(ex, ey, et, height, width) ==
  IF ~IsImage2D(ex) THEN "TypeError"
  ELSE IF ~ShapeIs(ex, height, width) THEN "RuntimeError"
  ELSE IF ~IsImage2D(ey) THEN "TypeError"
  ELSE IF ~ShapeIs(ey, height, width) THEN "RuntimeError"
  ELSE IF ~IsImage2D(et) THEN "TypeError"
  ELSE IF ~ShapeIs(et, height, width) THEN "RuntimeError"
  ELSE "none"

\* The first failing check of the three supplied outputs.
OutputCheck(ex, ey, et, height, width) ==
  IF ~IsImage2D(ex) THEN "TypeError"
  ELSE IF ~IsImage2D(ey) THEN "TypeError"
  ELSE IF ~IsImage2D(et) THEN "TypeError"
  ELSE IF ~ShapeIs(ex, height, width) THEN "RuntimeError"
  ELSE IF ~ShapeIs(ey, height, width) THEN "RuntimeError"
  ELSE IF ~ShapeIs(et, height, width) THEN "RuntimeError"
  ELSE "none"

\* An allocation that hands back the image it was sized after.
NewZeros_SameArray(like) == like

\* PyBlitzArray_SimpleNew followed by (*bz) = 0.
NewZeros(like) == Fill("float64", like.shape, 0)

\* A core call that leaves the array as it was.
Written_Nothing(a, data) == a

\* The array a after the core has written a field into it.
Written(a, data) == [a EXCEPT !.data = data]

PyBobIpOptflowCentralGradient_evaluate(self, image1, image2, image3, ex, ey, et) ==
  IF \E o \in {image1, image2, image3} : ~Converts(o)
    THEN EvalFail("TypeError", ex, ey, et)
  ELSE IF \E o \in {ex, ey, et} : o.kind = "object"
    THEN EvalFail("TypeError", ex, ey, et)
  ELSE IF ImageTypes(image1, image2, image3) # "none"
    THEN EvalFail(ImageTypes(image1, image2, image3), ex, ey, et)
  ELSE IF self.cxx.null
    THEN [EvalFail("none", ex, ey, et) EXCEPT !.crash = TRUE]
  ELSE
    LET height == self.cxx.shape[1]
        width == self.cxx.shape[2]
        images == ImageShapes(image1, image2, image3, height, width)
    IN IF images # "none" THEN EvalFail(images, ex, ey, et)
       ELSE IF ~AllOrNone(ex, ey, et) THEN EvalFail("RuntimeError", ex, ey, et)
       ELSE IF Converts(ex) /\ OutputCheck(ex, ey, et, height, width) # "none"
         THEN EvalFail(OutputCheck(ex, ey, et, height, width), ex, ey, et)
       ELSE
         LET g == CentralGradient_call(self.cxx, image1.data, image2.data, image3.data)
             ox == Written(IF Converts(ex) THEN ex ELSE NewZeros(image1), g[1])
             oy == Written(IF Converts(ex) THEN ey ELSE NewZeros(image1), g[2])
             ot == Written(IF Converts(ex) THEN et ELSE NewZeros(image1), g[3])
             args == IF Converts(ex)
                     THEN FunctorArgs(image1, image2, image3, ex, ey, et)
                     ELSE FunctorArgs(image1, image2, image3, NewZeros(image1),
                                      NewZeros(image1), NewZeros(image1))
         IN IF Converts(ex)
            THEN EvalOut(1, "none", ox, oy, ot, <<ox, oy, ot>>, <<args>>)
            ELSE EvalOut(1, "none", ex, ey, et, <<ox, oy, ot>>, <<args>>)

(* ------------------- core: Horn & Schunck solvers ---------------------- *)

\* Pixel (y, x) of field B with replicate boundary.
At(B, y, x, shape) == B[<<Clamp(y, shape[1]), Clamp(x, shape[2])>>]

Sum4(a, b, c, d) == Add(Add(a, b), Add(c, d))

Quarter(a) == Mul(Norm(1, 4), a)

\* Forward-difference gradients of the vanilla solver over the 2x2x2 cube.
ForwardEx(i1, i2, shape) ==
  Table([p \in Idx(shape) |->
           LET y == p[1]
               x == p[2]
           IN Quarter(Sum4(Sub(At(i1, y, x + 1, shape), At(i1, y, x, shape)),
                           Sub(At(i1, y + 1, x + 1, shape), At(i1, y + 1, x, shape)),
                           Sub(At(i2, y, x + 1, shape), At(i2, y, x, shape)),
                           Sub(At(i2, y + 1, x + 1, shape), At(i2, y + 1, x, shape))))])

ForwardEy(i1, i2, shape) ==
  Table([p \in Idx(shape) |->
           LET y == p[1]
               x == p[2]
           IN Quarter(Sum4(Sub(At(i1, y + 1, x, shape), At(i1, y, x, shape)),
                           Sub(At(i1, y + 1, x + 1, shape), At(i1, y, x + 1, shape)),
                           Sub(At(i2, y + 1, x, shape), At(i2, y, x, shape)),
                           Sub(At(i2, y + 1, x + 1, shape), At(i2, y, x + 1, shape))))])

\* ForwardEt adding the two frames where it should subtract them.
ForwardEt_Sum(i1, i2, shape) ==
  Table([p \in Idx(shape) |->
           LET y == p[1]
               x == p[2]
           IN Quarter(Sum4(Add(At(i2, y, x, shape), At(i1, y, x, shape)),
                           Add(At(i2, y, x + 1, shape), At(i1, y, x + 1, shape)),
                           Add(At(i2, y + 1, x, shape), At(i1, y + 1, x, shape)),
                           Add(At(i2, y + 1, x + 1, shape), At(i1, y + 1, x + 1, shape))))])

ForwardEt(i1, i2, shape) ==
  Table([p \in Idx(shape) |->
           LET y == p[1]
               x == p[2]
           IN Quarter(Sum4(Sub(At(i2, y, x, shape), At(i1, y, x, shape)),
                           Sub(At(i2, y, x + 1, shape), At(i1, y, x + 1, shape)),
                           Sub(At(i2, y + 1, x, shape), At(i1, y + 1, x, shape)),
                           Sub(At(i2, y + 1, x + 1, shape), At(i1, y + 1, x + 1, shape))))])

\* Averaging stencil [[1/12, 1/6, 1/12], [1/6, 0, 1/6], [1/12, 1/6, 1/12]].
core_laplacian_avg_hs(B, shape) ==
  Table([p \in Idx(shape) |->
           LET y == p[1]
               x == p[2]
           IN Add(Mul(Norm(1, 12),
                      Sum4(At(B, y - 1, x - 1, shape), At(B, y - 1, x + 1, shape),
                           At(B, y + 1, x - 1, shape), At(B, y + 1, x + 1, shape))),
                  Mul(Norm(1, 6),
                      Sum4(At(B, y - 1, x, shape), At(B, y, x - 1, shape),
                           At(B, y, x + 1, shape), At(B, y + 1, x, shape))))])

\* Averaging stencil [[0, 1/4, 0], [1/4, 0, 1/4], [0, 1/4, 0]].
core_laplacian_avg_hs_opencv(B, shape) ==
  Table([p \in Idx(shape) |->
           LET y == p[1]
               x == p[2]
           IN Quarter(Sum4(At(B, y - 1, x, shape), At(B, y, x - 1, shape),
                           At(B, y, x + 1, shape), At(B, y + 1, x, shape)))])

\* The two solver variants: their averaging stencil and their gradients.
LaplacianOf(kind, B, shape) ==
  IF kind = "vanilla" THEN core_laplacian_avg_hs(B, shape)
  ELSE core_laplacian_avg_hs_opencv(B, shape)

SobelDiff == Kern("float64", R(1), R(0), R(-1)).data

SobelAvg == Kern("float64", R(1), R(2), R(1)).data

\* <<Ex, Ey, Et>> of the frames of a call; i3 is unused by the vanilla solver.
GradientsOf(kind, i1, i2, i3, shape) ==
  IF kind = "vanilla"
  THEN <<ForwardEx(i1, i2, shape), ForwardEy(i1, i2, shape), ForwardEt(i1, i2, shape)>>
  ELSE <<GradEx(SobelDiff, SobelAvg, i1, i2, i3, shape),
         GradEy(SobelDiff, SobelAvg, i1, i2, i3, shape),
         GradEt(SobelDiff, SobelAvg, i1, i2, i3, shape)>>

\* One fixed-point update: both fields are computed from the averages of the
\* previous fields and committed together.
Numer(g, ubar, vbar, p) ==
  Add(Add(Mul(g[1][p], ubar[p]), Mul(g[2][p], vbar[p])), g[3][p])

Denom(alpha, g, p) ==
  Add(Add(Mul(alpha, alpha), Mul(g[1][p], g[1][p])),
      Add(Mul(g[2][p], g[2][p]), Mul(g[3][p], g[3][p])))

Ratio(alpha, g, ubar, vbar, shape) ==
  Table([p \in Idx(shape) |-> Div(Numer(g, ubar, vbar, p), Denom(alpha, g, p))])

\* The new value of the field whose average is bar and whose gradient is gc.
Update(bar, gc, ratio, shape) ==
  Table([p \in Idx(shape) |-> Sub(bar[p], Mul(gc[p], ratio[p]))])

Commit(alpha, g, ubar, vbar, shape) ==
  <<Update(ubar, g[1], Ratio(alpha, g, ubar, vbar, shape), shape),
    Update(vbar, g[2], Ratio(alpha, g, ubar, vbar, shape), shape)>>

Step(kind, alpha, g, uv, shape) ==
  Commit(alpha, g, LaplacianOf(kind, uv[1], shape), LaplacianOf(kind, uv[2], shape),
         shape)

RECURSIVE Iterate(_, _, _, _, _, _)
Iterate(kind, alpha, g, uv, n, shape) ==
  IF n <= 0 THEN uv
  ELSE Iterate(kind, alpha, g, Step(kind, alpha, g, uv, shape), n - 1, shape)

\* Averages taken anew from the fields as they are when a pixel is updated.
Averages_Live(f, bars, uv) ==
  <<LaplacianOf(f.kind, uv[1], f.shape), LaplacianOf(f.kind, uv[2], f.shape)>>

\* The averages the update of a pixel reads: the scratch fields ubar, vbar
\* filled before the sweep, whatever the fields u, v hold by now.
Averages(f, bars, uv) == bars

\* The update of the one pixel p, written into the fields u, v in place.
Flow_pixel(f, alpha, g, bars, uv, p) ==
  LET ratio == Div(Numer(g, Averages(f, bars, uv)[1], Averages(f, bars, uv)[2], p),
                   Denom(alpha, g, p))
  IN <<[uv[1] EXCEPT ![p] = Sub(Averages(f, bars, uv)[1][p], Mul(g[1][p], ratio))],
       [uv[2] EXCEPT ![p] = Sub(Averages(f, bars, uv)[2][p], Mul(g[2][p], ratio))]>>

\* What a core call leaves: the error it threw ("none" when none) and the
\* fields it wrote.
CoreOut(threw, fields) == [threw |-> threw, fields |-> fields]

\* The frames a variant reads.
FramesOf(kind, i1, i2, i3) == IF kind = "vanilla" THEN {i1, i2} ELSE {i1, i2, i3}

\* operator()(alpha, iterations, i1, i2[, i3], u, v) of either solver.
Flow_call(f, alpha, iterations, i1, i2, i3, u, v) ==
  IF \E a \in FramesOf(f.kind, i1, i2, i3) \cup {u, v} : a.shape # f.shape
    THEN CoreOut("ShapeError", <<u.data, v.data>>)
  ELSE IF ~IsFinite(alpha) THEN CoreOut("ArgumentError", <<u.data, v.data>>)
  ELSE CoreOut("none",
         Iterate(f.kind, alpha,
                 GradientsOf(f.kind, i1.data, i2.data, i3.data, f.shape),
                 <<u.data, v.data>>, iterations, f.shape))

\* The smoothness error (ubar - u)^2 + (vbar - v)^2.
Ec2(ubar, vbar, u, v, shape) ==
  Table([p \in Idx(shape) |->
           Add(Mul(Sub(ubar[p], u[p]), Sub(ubar[p], u[p])),
               Mul(Sub(vbar[p], v[p]), Sub(vbar[p], v[p])))])

\* The brightness error Ex u + Ey v + Et.
Eb(g, u, v, shape) ==
  Table([p \in Idx(shape) |-> Add(Add(Mul(g[1][p], u[p]), Mul(g[2][p], v[p])), g[3][p])])

\* evalEc2(u, v, error).
Flow_evalEc2(f, u, v) ==
  IF \E a \in {u, v} : a.shape # f.shape THEN CoreOut("ShapeError", <<>>)
  ELSE CoreOut("none",
         <<Ec2(LaplacianOf(f.kind, u.data, f.shape),
               LaplacianOf(f.kind, v.data, f.shape), u.data, v.data, f.shape)>>)

\* evalEb(i1, i2[, i3], u, v, error).
Flow_evalEb(f, i1, i2, i3, u, v) ==
  IF \E a \in FramesOf(f.kind, i1, i2, i3) \cup {u, v} : a.shape # f.shape
    THEN CoreOut("ShapeError", <<>>)
  ELSE CoreOut("none",
         <<Eb(GradientsOf(f.kind, i1.data, i2.data, i3.data, f.shape),
              u.data, v.data, f.shape)>>)

\* Largest integer not above the finite value a.
Floor(a) == a.n \div a.d

\* Bilinear sample of B at the finite coordinates (y, x), clamped to B.
Bilinear(B, y, x, shape) ==
  LET y0 == Floor(y)
      x0 == Floor(x)
      fy == Sub(y, R(y0))
      fx == Sub(x, R(x0))
      top == Add(Mul(Sub(R(1), fx), At(B, y0, x0, shape)),
                 Mul(fx, At(B, y0, x0 + 1, shape)))
      bot == Add(Mul(Sub(R(1), fx), At(B, y0 + 1, x0, shape)),
                 Mul(fx, At(B, y0 + 1, x0 + 1, shape)))
  IN Add(Mul(Sub(R(1), fy), top), Mul(fy, bot))

\* flowError(i1, i2, u, v, error): i2(x - u, y - v) - i1(x, y); a pixel whose
\* displacement is not finite has no sample and gets NaN.
core_flowError(i1, i2, u, v) ==
  IF \E a \in {i2, u, v} : a.shape # i1.shape THEN CoreOut("ShapeError", <<>>)
  ELSE CoreOut("none",
         <<[p \in Idx(i1.shape) |->
              IF IsFinite(u.data[p]) /\ IsFinite(v.data[p])
              THEN Sub(Bilinear(i2.data, Sub(R(p[1]), v.data[p]),
                                Sub(R(p[2]), u.data[p]), i1.shape),
                       i1.data[p])
              ELSE NaN]>>)

(* --------------------- flow.cc: the solver bindings -------------------- *)

\* bob::core::array::ElementType values the bindings switch on.
t_uint8 == 6

t_float64 == 11

\* bz<T,2>() succeeds on a 2-D array of element type T.
Bz(a, T) == a.type_num = T /\ a.ndim = 2

\* A cast that hands back the uint8 array it was given.
CastUint8_Reinterpret(a) == a

\* bob::core::array::cast<double,uint8_t>: a new float64 array of the values.
CastUint8(a) == [a EXCEPT !.type_num = "float64"]

\* bob::python::ndarray(t_float64, info.shape[0], info.shape[1]), set to 0.
NewField(info) == Fill("float64", <<info.shape[1], info.shape[2]>>, 0)

\* bob::python::ndarray(info): a new array of info's element type and shape.
NewLike(info) == Fill(info.type_num, info.shape, 0)

\* What a binding leaves: the exception raised, the caller's u and v after
\* the call, the arrays returned, and the core calls made.
FlowOut(err, u, v, result, invoked) ==
  [err |-> err, u |-> u, v |-> v, result |-> result, invoked |-> invoked]

\* The arguments a core function was handed.
CoreArgs(fn, alpha, iterations, i1, i2, i3, u, v) ==
  [fn |-> fn, alpha |-> alpha, iterations |-> iterations,
   i1 |-> i1, i2 |-> i2, i3 |-> i3, u |-> u, v |-> v]

\* A core call c that wrote u and v, or threw.
InPlace(c, args, u, v) ==
  IF c.threw # "none" THEN FlowOut(c.threw, u, v, <<>>, <<args>>)
  ELSE FlowOut("none", Written(u, c.fields[1]), Written(v, c.fields[2]), <<>>,
               <<args>>)

\* A core call c that wrote the new array error, which is returned, or threw.
Returning(c, args, u, v, error) ==
  IF c.threw # "none" THEN FlowOut(c.threw, u, v, <<>>, <<args>>)
  ELSE FlowOut("none", u, v, <<Written(error, c.fields[1])>>, <<args>>)

\* f(alpha, iterations, i1, i2[, i3], u_, v_) and what the binding is left
\* with: u_ and v_ are views of the arrays u and v, which the core writes.
RunCore(f, alpha, iterations, i1, i2, i3, u, v) ==
  InPlace(Flow_call(f, alpha, iterations, i1, i2, i3, u, v),
          CoreArgs("call", alpha, iterations, i1, i2, i3, u, v), u, v)

\* f.evalEb(i1, i2[, i3], u, v, error_).
RunEb(f, i1, i2, i3, u, v, error) ==
  Returning(Flow_evalEb(f, i1, i2, i3, u, v),
            CoreArgs("evalEb", NaN, 0, i1, i2, i3, u, v), u, v, error)

\* f.evalEc2(u, v, error_).
RunEc2(f, u, v, error) ==
  Returning(Flow_evalEc2(f, u, v),
            CoreArgs("evalEc2", NaN, 0, Absent, Absent, Absent, u, v), u, v, error)

\* return make_tuple(u, v): the fields the binding allocated are handed back
\* when the core returned; the caller passed none.
MakeTuple(o) ==
  FlowOut(o.err, Absent, Absent, IF o.err = "none" THEN <<o.u, o.v>> ELSE <<>>,
          o.invoked)

\* run of the vanilla solver: the switch is on info.nd.
vanillahs_call(f, alpha, iterations, i1, i2) ==
  IF iterations < 0 THEN FlowOut("OverflowError", Absent, Absent, <<>>, <<>>)
  ELSE
    LET u == NewField(i1)
        v == NewField(i1)
    IN IF i1.ndim = t_uint8
       THEN IF ~Bz(i1, "uint8") \/ ~Bz(i2, "uint8")
            THEN FlowOut("RuntimeError", Absent, Absent, <<>>, <<>>)
            ELSE MakeTuple(RunCore(f, alpha, iterations, CastUint8(i1), CastUint8(i2),
                                   Absent, u, v))
       ELSE IF i1.ndim = t_float64
       THEN IF ~Bz(i1, "float64") \/ ~Bz(i2, "float64")
            THEN FlowOut("RuntimeError", Absent, Absent, <<>>, <<>>)
            ELSE MakeTuple(RunCore(f, alpha, iterations, i1, i2, Absent, u, v))
       ELSE FlowOut("TypeError", Absent, Absent, <<>>, <<>>)

\* vanillahs_call2 setting the caller's fields to 0 first, as vanillahs_call
\* does with its own.
vanillahs_call2_Zeroing(f, alpha, iterations, i1, i2, u, v) ==
  IF iterations < 0 THEN FlowOut("OverflowError", u, v, <<>>, <<>>)
  ELSE IF ~Bz(u, "float64") \/ ~Bz(v, "float64")
    THEN FlowOut("RuntimeError", u, v, <<>>, <<>>)
  ELSE IF i1.type_num = "uint8"
    THEN IF ~Bz(i1, "uint8") \/ ~Bz(i2, "uint8")
         THEN FlowOut("RuntimeError", NewLike(u), NewLike(v), <<>>, <<>>)
         ELSE RunCore(f, alpha, iterations, CastUint8(i1), CastUint8(i2), Absent,
                      NewLike(u), NewLike(v))
  ELSE IF i1.type_num = "float64"
    THEN IF ~Bz(i1, "float64") \/ ~Bz(i2, "float64")
         THEN FlowOut("RuntimeError", NewLike(u), NewLike(v), <<>>, <<>>)
         ELSE RunCore(f, alpha, iterations, i1, i2, Absent, NewLike(u), NewLike(v))
  ELSE FlowOut("TypeError", NewLike(u), NewLike(v), <<>>, <<>>)

\* run_inplace of the vanilla solver: the switch is on i1.type().dtype.
vanillahs_call2(f, alpha, iterations, i1, i2, u, v) ==
  IF iterations < 0 THEN FlowOut("OverflowError", u, v, <<>>, <<>>)
  ELSE IF ~Bz(u, "float64") \/ ~Bz(v, "float64")
    THEN FlowOut("RuntimeError", u, v, <<>>, <<>>)
  ELSE IF i1.type_num = "uint8"
    THEN IF ~Bz(i1, "uint8") \/ ~Bz(i2, "uint8")
         THEN FlowOut("RuntimeError", u, v, <<>>, <<>>)
         ELSE RunCore(f, alpha, iterations, CastUint8(i1), CastUint8(i2), Absent, u, v)
  ELSE IF i1.type_num = "float64"
    THEN IF ~Bz(i1, "float64") \/ ~Bz(i2, "float64")
         THEN FlowOut("RuntimeError", u, v, <<>>, <<>>)
         ELSE RunCore(f, alpha, iterations, i1, i2, Absent, u, v)
  ELSE FlowOut("TypeError", u, v, <<>>, <<>>)

vanillahs_ec2(f, u, v) ==
  IF ~Bz(u, "float64") \/ ~Bz(v, "float64")
    THEN FlowOut("RuntimeError", u, v, <<>>, <<>>)
  ELSE RunEc2(f, u, v, NewLike(u))

vanillahs_eb(f, i1, i2, u, v) ==
  IF ~Bz(u, "float64") THEN FlowOut("RuntimeError", u, v, <<>>, <<>>)
  ELSE IF i1.type_num = "uint8"
    THEN IF ~Bz(i1, "uint8") \/ ~Bz(i2, "uint8") \/ ~Bz(v, "float64")
         THEN FlowOut("RuntimeError", u, v, <<>>, <<>>)
         ELSE RunEb(f, CastUint8(i1), CastUint8(i2), Absent, u, v, NewLike(u))
  ELSE IF i1.type_num = "float64"
    THEN IF ~Bz(i1, "float64") \/ ~Bz(i2, "float64") \/ ~Bz(v, "float64")
         THEN FlowOut("RuntimeError", u, v, <<>>, <<>>)
         ELSE RunEb(f, i1, i2, Absent, u, v, NewLike(u))
  ELSE FlowOut("TypeError", u, v, <<>>, <<>>)

\* run of the smoothed solver: the switch is on info.nd.
hs_call(f, alpha, iterations, i1, i2, i3) ==
  IF iterations < 0 THEN FlowOut("OverflowError", Absent, Absent, <<>>, <<>>)
  ELSE
    LET u == NewField(i1)
        v == NewField(i1)
    IN IF i1.ndim = t_uint8
       THEN IF ~Bz(i1, "uint8") \/ ~Bz(i2, "uint8") \/ ~Bz(i3, "uint8")
            THEN FlowOut("RuntimeError", Absent, Absent, <<>>, <<>>)
            ELSE MakeTuple(RunCore(f, alpha, iterations, CastUint8(i1), CastUint8(i2),
                                   CastUint8(i3), u, v))
       ELSE IF i1.ndim = t_float64
       THEN IF ~Bz(i1, "float64") \/ ~Bz(i2, "float64") \/ ~Bz(i3, "float64")
            THEN FlowOut("RuntimeError", Absent, Absent, <<>>, <<>>)
            ELSE MakeTuple(RunCore(f, alpha, iterations, i1, i2, i3, u, v))
       ELSE FlowOut("TypeError", Absent, Absent, <<>>, <<>>)

\* run_inplace of the smoothed solver.
hs_call2(f, alpha, iterations, i1, i2, i3, u, v) ==
  IF iterations < 0 THEN FlowOut("OverflowError", u, v, <<>>, <<>>)
  ELSE IF ~Bz(u, "float64") \/ ~Bz(v, "float64")
    THEN FlowOut("RuntimeError", u, v, <<>>, <<>>)
  ELSE IF i1.type_num = "uint8"
    THEN IF ~Bz(i1, "uint8") \/ ~Bz(i2, "uint8") \/ ~Bz(i3, "uint8")
         THEN FlowOut("RuntimeError", u, v, <<>>, <<>>)
         ELSE RunCore(f, alpha, iterations, CastUint8(i1), CastUint8(i2),
                      CastUint8(i3), u, v)
  ELSE IF i1.type_num = "float64"
    THEN IF ~Bz(i1, "float64") \/ ~Bz(i2, "float64") \/ ~Bz(i3, "float64")
         THEN FlowOut("RuntimeError", u, v, <<>>, <<>>)
         ELSE RunCore(f, alpha, iterations, i1, i2, i3, u, v)
  ELSE FlowOut("TypeError", u, v, <<>>, <<>>)

hs_ec2(f, u, v) ==
  IF ~Bz(u, "float64") \/ ~Bz(v, "float64")
    THEN FlowOut("RuntimeError", u, v, <<>>, <<>>)
  ELSE RunEc2(f, u, v, NewLike(u))

hs_eb(f, i1, i2, i3, u, v) ==
  IF ~Bz(u, "float64") THEN FlowOut("RuntimeError", u, v, <<>>, <<>>)
  ELSE IF i1.type_num = "uint8"
    THEN IF ~Bz(i1, "uint8") \/ ~Bz(i2, "uint8") \/ ~Bz(i3, "uint8")
            \/ ~Bz(v, "float64")
         THEN FlowOut("RuntimeError", u, v, <<>>, <<>>)
         ELSE RunEb(f, CastUint8(i1), CastUint8(i2), CastUint8(i3), u, v, NewLike(u))
  ELSE IF i1.type_num = "float64"
    THEN IF ~Bz(i1, "float64") \/ ~Bz(i2, "float64") \/ ~Bz(i3, "float64")
            \/ ~Bz(v, "float64")
         THEN FlowOut("RuntimeError", u, v, <<>>, <<>>)
         ELSE RunEb(f, i1, i2, i3, u, v, NewLike(u))
  ELSE FlowOut("TypeError", u, v, <<>>, <<>>)

\* bob::ip::optflow::flowError(i1, i2, u, v, error_).
RunFlowError(i1, i2, u, v, error) ==
  Returning(core_flowError(i1, i2, u, v),
            CoreArgs("flowError", NaN, 0, i1, i2, Absent, u, v), u, v, error)

\* flow_error handing the field u to the core as the second frame.
flow_error_FieldAsFrame(i1, i2, u, v) ==
  IF ~Bz(u, "float64") THEN FlowOut("RuntimeError", u, v, <<>>, <<>>)
  ELSE IF i1.type_num = "uint8"
    THEN IF ~Bz(i1, "uint8") \/ ~Bz(i2, "uint8") \/ ~Bz(v, "float64")
         THEN FlowOut("RuntimeError", u, v, <<>>, <<>>)
         ELSE RunFlowError(CastUint8(i1), u, u, v, NewLike(u))
  ELSE IF i1.type_num = "float64"
    THEN IF ~Bz(i1, "float64") \/ ~Bz(i2, "float64") \/ ~Bz(v, "float64")
         THEN FlowOut("RuntimeError", u, v, <<>>, <<>>)
         ELSE RunFlowError(i1, u, u, v, NewLike(u))
  ELSE FlowOut("TypeError", u, v, <<>>, <<>>)

\* flow_error(i1, i2, u, v): the frames as double, the error array made like u.
flow_error(i1, i2, u, v) ==
  IF ~Bz(u, "float64") THEN FlowOut("RuntimeError", u, v, <<>>, <<>>)
  ELSE IF i1.type_num = "uint8"
    THEN IF ~Bz(i1, "uint8") \/ ~Bz(i2, "uint8") \/ ~Bz(v, "float64")
         THEN FlowOut("RuntimeError", u, v, <<>>, <<>>)
         ELSE RunFlowError(CastUint8(i1), CastUint8(i2), u, v, NewLike(u))
  ELSE IF i1.type_num = "float64"
    THEN IF ~Bz(i1, "float64") \/ ~Bz(i2, "float64") \/ ~Bz(v, "float64")
         THEN FlowOut("RuntimeError", u, v, <<>>, <<>>)
         ELSE RunFlowError(i1, i2, u, v, NewLike(u))
  ELSE FlowOut("TypeError", u, v, <<>>, <<>>)

laplacian_avg_hs_opencv(i) ==
  IF ~Bz(i, "float64") THEN FlowOut("RuntimeError", Absent, Absent, <<>>, <<>>)
  ELSE FlowOut("none", Absent, Absent,
               <<Written(NewLike(i), core_laplacian_avg_hs_opencv(i.data, i.shape))>>,
               <<CoreArgs("laplacian_avg_hs_opencv", NaN, 0, i, Absent, Absent,
                          Absent, Absent)>>)

\* laplacian_avg_hs returning its new array without the core call.
laplacian_avg_hs_NoCall(i) ==
  IF ~Bz(i, "float64") THEN FlowOut("RuntimeError", Absent, Absent, <<>>, <<>>)
  ELSE FlowOut("none", Absent, Absent, <<NewLike(i)>>, <<>>)

laplacian_avg_hs(i) ==
  IF ~Bz(i, "float64") THEN FlowOut("RuntimeError", Absent, Absent, <<>>, <<>>)
  ELSE FlowOut("none", Absent, Absent,
               <<Written(NewLike(i), core_laplacian_avg_hs(i.data, i.shape))>>,
               <<CoreArgs("laplacian_avg_hs", NaN, 0, i, Absent, Absent,
                          Absent, Absent)>>)

(* ------------------------------- state --------------------------------- *)

VARIABLES
  pc,       \* "idle": the caller may call; "done": a call has just returned
  self,     \* the Python estimator object: its cxx pointer
  crashed,  \* a null cxx was dereferenced
  call,     \* the last call: its name, the receiver and the arguments as passed
  ret,      \* the C return value of the last estimator call
  err,      \* the exception the last call set, "none" when none
  outs,     \* the caller's output arrays after the last call
  result,   \* the arrays the last call returned
  invoked,  \* the core calls the last call made, with their arguments
  sweep,    \* solver scratch: iterations done, the averages, pixels to update
  mem,      \* the allocator's view: the object, its cxx pointers, the heap
  refs      \* array references the last call acquired and released

vars == <<pc, self, crashed, call, ret, err, outs, result, invoked, sweep, mem, refs>>

\* The three resource views before anything has used them. The call
\* specifications follow what cxx points to and what a call returns; scratch,
\* heap and reference counts are followed by the specifications of their own.
NoSweep == [k |-> 0, g |-> <<>>, bars |-> <<>>, pending |-> {}]

NoMem == [obj |-> "live", parent_cxx |-> 0, cxx |-> 0, heap |-> <<>>]

NoRefs == [acquired |-> 0, released |-> 0]

(* ------------------------------- inputs -------------------------------- *)

Shapes == {<<h, w>> : h \in 1..MaxDim, w \in 1..MaxDim}

\* Kernels the binding and the core accept.
GoodKernels ==
  {Kern("float64", R(1), R(0), R(-1)), Kern("float64", R(1), R(2), R(1))}

\* Three finite float64 entries, with a non-finite one among them.
NonFiniteKernels ==
  {Kern("float64", R(1), NaN, R(-1)), Kern("float64", Inf, R(0), R(-1))}

\* Not a 1-D float64 array of 3 elements.
MalformedKernels ==
  {Arr("float64", <<2>>, [p \in Idx(<<2>>) |-> R(1)]),
   Kern("int64", R(1), R(0), R(-1)),
   Arr("float64", <<1, 3>>, [p \in Idx(<<1, 3>>) |-> R(1)]),
   NotAnArray}

KernelInputs == GoodKernels \cup NonFiniteKernels \cup MalformedKernels

\* Images offered to an estimator configured for shape s: two of that shape,
\* one too high, one too wide, one of another element type.
ImageInputs(s) ==
  {Ramp("float64", s),
   Ramp("float64", <<s[1] + 1, s[2]>>),
   Ramp("float64", <<s[1], s[2] + 1>>),
   Ramp("uint8", s)}

\* Output arrays offered: none, one of that shape holding 7 everywhere, one
\* too wide, one of another element type.
OutputInputs(s) ==
  {Absent,
   Fill("float64", s, 7),
   Fill("float64", <<s[1], s[2] + 1>>, 7),
   Fill("float32", s, 7),
   NotAnArray}

(* ------------------------------ actions -------------------------------- *)

Init ==
  /\ pc = "idle"
  /\ self = PyBobIpOptflowCentralGradient_new("CentralGradient")
  /\ crashed = FALSE
  /\ call = [op |-> "none"]
  /\ ret = 0
  /\ err = "none"
  /\ outs = <<>>
  /\ result = <<>>
  /\ invoked = <<>>
  /\ sweep = NoSweep
  /\ mem = NoMem
  /\ refs = NoRefs

\* The outcome o of a kernel or shape call.
Leave(o) ==
  /\ pc' = "done"
  /\ self' = o.self
  /\ crashed' = o.crash
  /\ ret' = o.ret
  /\ err' = o.err
  /\ outs' = <<>>
  /\ result' = <<>>
  /\ invoked' = <<>>
  /\ UNCHANGED <<sweep, mem, refs>>

DoInit ==
  /\ pc = "idle"
  /\ self.ob_type = "CentralGradient"
  /\ \E diff \in KernelInputs, avg \in KernelInputs, s \in Shapes :
       /\ call' = [op |-> "init", self |-> self, difference |-> diff, average |-> avg, shape |-> s]
       /\ Leave(PyBobIpOptflowCentralGradient_init(self, diff, avg, s[1], s[2]))

DoSetShape ==
  /\ pc = "idle"
  /\ \E s \in Shapes :
       /\ call' = [op |-> "setShape", self |-> self, shape |-> s]
       /\ Leave(PyObject_SetAttr(self, "shape", s))

DoSetDifference ==
  /\ pc = "idle"
  /\ \E o \in KernelInputs :
       /\ call' = [op |-> "setDifference", self |-> self, o |-> o]
       /\ Leave(PyObject_SetAttr(self, "difference", o))

DoSetAverage ==
  /\ pc = "idle"
  /\ \E o \in KernelInputs :
       /\ call' = [op |-> "setAverage", self |-> self, o |-> o]
       /\ Leave(PyObject_SetAttr(self, "average", o))

\* The shapes an evaluate call is tried against: the configured one, or any
\* when cxx is null.
ConfiguredShapes == IF self.cxx.null THEN {<<1, 1>>} ELSE {self.cxx.shape}

DoEvaluate ==
  /\ pc = "idle"
  /\ \E s \in ConfiguredShapes :
     \E image1 \in ImageInputs(s), image2 \in ImageInputs(s), image3 \in ImageInputs(s) :
     \E ex \in OutputInputs(s), ey \in OutputInputs(s), et \in OutputInputs(s) :
       LET o == PyBobIpOptflowCentralGradient_evaluate(
                  self, image1, image2, image3, ex, ey, et)
       IN /\ call' = [op |-> "evaluate", self |-> self, image1 |-> image1, image2 |-> image2,
                      image3 |-> image3, ex |-> ex, ey |-> ey, et |-> et]
          /\ pc' = "done"
          /\ self' = self
          /\ crashed' = o.crash
          /\ ret' = o.ret
          /\ err' = o.err
          /\ outs' = <<o.ex, o.ey, o.et>>
          /\ result' = o.result
          /\ invoked' = o.invoked
          /\ UNCHANGED <<sweep, mem, refs>>

\* Control is back with the caller, which drops the call's arguments and
\* results and keeps the object. A crashed process makes no further call.
Return ==
  /\ pc = "done"
  /\ ~crashed
  /\ pc' = "idle"
  /\ call' = [op |-> "none"]
  /\ ret' = 0
  /\ err' = "none"
  /\ outs' = <<>>
  /\ result' = <<>>
  /\ invoked' = <<>>
  /\ refs' = NoRefs
  /\ UNCHANGED <<self, crashed, sweep, mem>>

Next ==
  \/ DoInit \/ DoSetShape \/ DoSetDifference \/ DoSetAverage \/ DoEvaluate
  \/ Return

Spec == Init /\ [][Next]_vars

(* ------------------- the four estimator types -------------------------- *)

\* Image triplets offered to an estimator of any of the four types: a moving
\* image with no two neighbours alike, a uniform triplet, and a flash between
\* two uniform images.
FamilyTriplets(s) ==
  {<<Ramp("float64", s), Fill("float64", s, 3), Ramp("float64", s)>>,
   <<Fill("float64", s, 3), Fill("float64", s, 3), Fill("float64", s, 3)>>,
   <<Fill("float64", s, 3), Ramp("float64", s), Fill("float64", s, 3)>>}

\* Output arrays offered: none, or one of the configured shape.
FamilyOutputInputs(s) == {Absent, Fill("float64", s, 7)}

FamilyInit ==
  /\ pc = "idle"
  /\ self \in {PyBobIpOptflowCentralGradient_new(type) : type \in GradientTypes}
  /\ crashed = FALSE
  /\ call = [op |-> "none"]
  /\ ret = 0
  /\ err = "none"
  /\ outs = <<>>
  /\ result = <<>>
  /\ invoked = <<>>
  /\ sweep = NoSweep
  /\ mem = NoMem
  /\ refs = NoRefs

\* tp_init of a fixed variant.
FixedInit(type, s) ==
  IF type = "SobelGradient" THEN PyBobIpOptflowSobelGradient_init(self, s[1], s[2])
  ELSE IF type = "PrewittGradient" THEN PyBobIpOptflowPrewittGradient_init(self, s[1], s[2])
  ELSE PyBobIpOptflowIsotropicGradient_init(self, s[1], s[2])

DoInitFixed ==
  /\ pc = "idle"
  /\ self.ob_type \in FixedTypes
  /\ \E s \in Shapes :
       /\ call' = [op |-> "init", self |-> self, shape |-> s]
       /\ Leave(FixedInit(self.ob_type, s))

FamilyEvaluate ==
  /\ pc = "idle"
  /\ \E s \in ConfiguredShapes :
     \E images \in FamilyTriplets(s) :
     \E ex \in FamilyOutputInputs(s), ey \in FamilyOutputInputs(s),
        et \in FamilyOutputInputs(s) :
       LET o == PyBobIpOptflowCentralGradient_evaluate(
                  self, images[1], images[2], images[3], ex, ey, et)
       IN /\ call' = [op |-> "evaluate", self |-> self, image1 |-> images[1],
                      image2 |-> images[2], image3 |-> images[3],
                      ex |-> ex, ey |-> ey, et |-> et]
          /\ pc' = "done"
          /\ self' = self
          /\ crashed' = o.crash
          /\ ret' = o.ret
          /\ err' = o.err
          /\ outs' = <<o.ex, o.ey, o.et>>
          /\ result' = o.result
          /\ invoked' = o.invoked
          /\ UNCHANGED <<sweep, mem, refs>>

\* str(self): the dump is what the call returns.
DoStr ==
  /\ pc = "idle"
  /\ call' = [op |-> "str", self |-> self]
  /\ pc' = "done"
  /\ self' = self
  /\ crashed' = PyBobIpOptflowCentralGradient_Str(self).crash
  /\ ret' = IF PyBobIpOptflowCentralGradient_Str(self).crash THEN 0 ELSE 1
  /\ err' = "none"
  /\ outs' = <<>>
  /\ result' = IF PyBobIpOptflowCentralGradient_Str(self).crash THEN <<>>
               ELSE <<PyBobIpOptflowCentralGradient_Str(self).value>>
  /\ invoked' = <<>>
  /\ UNCHANGED <<sweep, mem, refs>>

FamilyNext ==
  \/ DoInit \/ DoInitFixed \/ DoSetShape \/ DoSetDifference \/ DoSetAverage
  \/ FamilyEvaluate \/ DoStr \/ Return

FamilySpec == FamilyInit /\ [][FamilyNext]_vars

(* ------------------------- impulse triplets ---------------------------- *)

\* The shape of the impulse scenarios: one row and one column more than the
\* largest shape of the other calls, so that a pixel has all its neighbours.
ScenarioShape == <<MaxDim + 1, MaxDim + 1>>

\* The image that is 1 at pixel at and 0 elsewhere.
Impulse(shape, at) ==
  Arr("float64", shape, [p \in Idx(shape) |-> R(IF p = at THEN 1 ELSE 0)])

\* The triplet whose given frame holds an impulse, the other two being zero.
ImpulseTriplet(shape, frame, at) ==
  [k \in 1..3 |-> IF k = frame THEN Impulse(shape, at) ELSE Fill("float64", shape, 0)]

\* tp_init of the base type with kernels it accepts, for the scenario shape.
ScenarioInitCentral ==
  /\ pc = "idle"
  /\ self.ob_type = "CentralGradient"
  /\ \E diff \in GoodKernels, avg \in GoodKernels :
       /\ call' = [op |-> "init", self |-> self, difference |-> diff, average |-> avg,
                   shape |-> ScenarioShape]
       /\ Leave(PyBobIpOptflowCentralGradient_init(
                  self, diff, avg, ScenarioShape[1], ScenarioShape[2]))

\* tp_init of a fixed variant, for the scenario shape.
ScenarioInitFixed ==
  /\ pc = "idle"
  /\ self.ob_type \in FixedTypes
  /\ call' = [op |-> "init", self |-> self, shape |-> ScenarioShape]
  /\ Leave(FixedInit(self.ob_type, ScenarioShape))

\* evaluate on an impulse triplet, no outputs passed.
ScenarioEvaluate ==
  /\ pc = "idle"
  /\ ~self.cxx.null
  /\ \E frame \in 1..3, at \in Idx(ScenarioShape) :
       LET images == ImpulseTriplet(ScenarioShape, frame, at)
           o == PyBobIpOptflowCentralGradient_evaluate(
                  self, images[1], images[2], images[3], Absent, Absent, Absent)
       IN /\ call' = [op |-> "evaluate", self |-> self, image1 |-> images[1],
                      image2 |-> images[2], image3 |-> images[3],
                      ex |-> Absent, ey |-> Absent, et |-> Absent,
                      frame |-> frame, at |-> at]
          /\ pc' = "done"
          /\ self' = self
          /\ crashed' = o.crash
          /\ ret' = o.ret
          /\ err' = o.err
          /\ outs' = <<o.ex, o.ey, o.et>>
          /\ result' = o.result
          /\ invoked' = o.invoked
          /\ UNCHANGED <<sweep, mem, refs>>

ScenarioNext ==
  \/ ScenarioInitCentral \/ ScenarioInitFixed \/ ScenarioEvaluate \/ Return

ScenarioSpec == FamilyInit /\ [][ScenarioNext]_vars

(* --------------------------- solver calls ------------------------------ *)

Solvers == {[kind |-> k, shape |-> s] : k \in {"vanilla", "smoothed"}, s \in Shapes}

Alphas == {R(0), R(1), NaN, Inf}

Iterations == -1..MaxIter

\* Frame with a vertical edge: 1 in the first column, 0 elsewhere.
Edge(type_num, shape) ==
  Arr(type_num, shape, [p \in Idx(shape) |-> R(IF p[2] = 1 THEN 1 ELSE 0)])

\* First frames offered to a solver of shape s: an edge, a uniform frame, a
\* uint8 edge, an edge too wide, an edge of an unsupported element type.
FrameInputs(s) ==
  {Edge("float64", s), Fill("float64", s, 1), Edge("uint8", s),
   Edge("float64", <<s[1], s[2] + 1>>), Edge("int32", s)}

\* Later frames offered.
OtherFrameInputs(s) ==
  {Edge("float64", s), Fill("float64", s, 1), Edge("uint8", s),
   Edge("float64", <<s[1], s[2] + 1>>)}

\* Fields offered as u: zero, a warm start, one too high, one of float32.
UInputs(s) ==
  {Fill("float64", s, 0), Ramp("float64", s), Fill("float64", <<s[1] + 1, s[2]>>, 0),
   Fill("float32", s, 0)}

\* Fields offered as v.
VInputs(s) ==
  {Fill("float64", s, 0), Fill("float64", s, 2), Fill("float64", <<s[1] + 1, s[2]>>, 0)}

FlowInit ==
  /\ pc = "idle"
  /\ self \in Solvers
  /\ crashed = FALSE
  /\ call = [op |-> "none"]
  /\ ret = 0
  /\ err = "none"
  /\ outs = <<>>
  /\ result = <<>>
  /\ invoked = <<>>
  /\ sweep = NoSweep
  /\ mem = NoMem
  /\ refs = NoRefs

\* The outcome o of a solver binding.
FlowLeave(o) ==
  /\ pc' = "done"
  /\ err' = o.err
  /\ outs' = <<o.u, o.v>>
  /\ result' = o.result
  /\ invoked' = o.invoked
  /\ UNCHANGED <<self, crashed, ret, sweep, mem, refs>>

FlowCall(op, alpha, iterations, i1, i2, i3, u, v) ==
  [op |-> op, self |-> self, alpha |-> alpha, iterations |-> iterations,
   i1 |-> i1, i2 |-> i2, i3 |-> i3, u |-> u, v |-> v]

VanillaRun ==
  /\ pc = "idle" /\ self.kind = "vanilla"
  /\ \E alpha \in Alphas, n \in Iterations :
     \E i1 \in FrameInputs(self.shape), i2 \in OtherFrameInputs(self.shape) :
       /\ call' = FlowCall("run", alpha, n, i1, i2, Absent, Absent, Absent)
       /\ FlowLeave(vanillahs_call(self, alpha, n, i1, i2))

VanillaRunInplace ==
  /\ pc = "idle" /\ self.kind = "vanilla"
  /\ \E alpha \in Alphas, n \in Iterations :
     \E i1 \in FrameInputs(self.shape), i2 \in OtherFrameInputs(self.shape) :
     \E u \in UInputs(self.shape), v \in VInputs(self.shape) :
       /\ call' = FlowCall("run_inplace", alpha, n, i1, i2, Absent, u, v)
       /\ FlowLeave(vanillahs_call2(self, alpha, n, i1, i2, u, v))

VanillaEc2 ==
  /\ pc = "idle" /\ self.kind = "vanilla"
  /\ \E u \in UInputs(self.shape), v \in VInputs(self.shape) :
       /\ call' = FlowCall("eval_ec2", NaN, 0, Absent, Absent, Absent, u, v)
       /\ FlowLeave(vanillahs_ec2(self, u, v))

VanillaEb ==
  /\ pc = "idle" /\ self.kind = "vanilla"
  /\ \E i1 \in FrameInputs(self.shape), i2 \in OtherFrameInputs(self.shape) :
     \E u \in UInputs(self.shape), v \in VInputs(self.shape) :
       /\ call' = FlowCall("eval_eb", NaN, 0, i1, i2, Absent, u, v)
       /\ FlowLeave(vanillahs_eb(self, i1, i2, u, v))

HsRun ==
  /\ pc = "idle" /\ self.kind = "smoothed"
  /\ \E alpha \in Alphas, n \in Iterations :
     \E i1 \in FrameInputs(self.shape), i2 \in OtherFrameInputs(self.shape),
        i3 \in OtherFrameInputs(self.shape) :
       /\ call' = FlowCall("run", alpha, n, i1, i2, i3, Absent, Absent)
       /\ FlowLeave(hs_call(self, alpha, n, i1, i2, i3))

HsRunInplace ==
  /\ pc = "idle" /\ self.kind = "smoothed"
  /\ \E alpha \in Alphas, n \in Iterations :
     \E i1 \in FrameInputs(self.shape), i2 \in OtherFrameInputs(self.shape),
        i3 \in OtherFrameInputs(self.shape) :
     \E u \in UInputs(self.shape), v \in VInputs(self.shape) :
       /\ call' = FlowCall("run_inplace", alpha, n, i1, i2, i3, u, v)
       /\ FlowLeave(hs_call2(self, alpha, n, i1, i2, i3, u, v))

HsEc2 ==
  /\ pc = "idle" /\ self.kind = "smoothed"
  /\ \E u \in UInputs(self.shape), v \in VInputs(self.shape) :
       /\ call' = FlowCall("eval_ec2", NaN, 0, Absent, Absent, Absent, u, v)
       /\ FlowLeave(hs_ec2(self, u, v))

HsEb ==
  /\ pc = "idle" /\ self.kind = "smoothed"
  /\ \E i1 \in FrameInputs(self.shape), i2 \in OtherFrameInputs(self.shape),
        i3 \in OtherFrameInputs(self.shape) :
     \E u \in UInputs(self.shape), v \in VInputs(self.shape) :
       /\ call' = FlowCall("eval_eb", NaN, 0, i1, i2, i3, u, v)
       /\ FlowLeave(hs_eb(self, i1, i2, i3, u, v))

\* The free functions take no solver; the shape of self only sizes the inputs.
FlowError ==
  /\ pc = "idle"
  /\ \E i1 \in FrameInputs(self.shape), i2 \in OtherFrameInputs(self.shape) :
     \E u \in UInputs(self.shape), v \in VInputs(self.shape) :
       /\ call' = FlowCall("flow_error", NaN, 0, i1, i2, Absent, u, v)
       /\ FlowLeave(flow_error(i1, i2, u, v))

\* Fields offered to the averaging operators, which take any shape: those
\* offered as u, and constant fields, one a row and a column larger, one of
\* thirds.
FieldInputs(s) ==
  UInputs(s) \cup
  {Fill("float64", s, 5), Fill("float64", <<s[1] + 1, s[2] + 1>>, -2),
   Arr("float64", s, [p \in Idx(s) |-> Norm(1, 3)])}

LaplacianAvgHs ==
  /\ pc = "idle"
  /\ \E i \in FieldInputs(self.shape) :
       /\ call' = FlowCall("laplacian_avg_hs", NaN, 0, i, Absent, Absent, Absent, Absent)
       /\ FlowLeave(laplacian_avg_hs(i))

LaplacianAvgHsOpenCV ==
  /\ pc = "idle"
  /\ \E i \in FieldInputs(self.shape) :
       /\ call' = FlowCall("laplacian_avg_hs_opencv", NaN, 0, i, Absent, Absent,
                           Absent, Absent)
       /\ FlowLeave(laplacian_avg_hs_opencv(i))

FlowNext ==
  \/ VanillaRun \/ VanillaRunInplace \/ VanillaEc2 \/ VanillaEb
  \/ HsRun \/ HsRunInplace \/ HsEc2 \/ HsEb
  \/ FlowError \/ LaplacianAvgHs \/ LaplacianAvgHsOpenCV
  \/ Return

FlowSpec == FlowInit /\ [][FlowNext]_vars

(* ------------------- the solver, pixel by pixel ------------------------ *)

\* Frames offered to a solver whose sweeps are followed: an edge that fades,
\* the same in uint8, and an edge too wide.
SweepFrames(s) ==
  {<<Edge("float64", s), Fill("float64", s, 1), Edge("float64", s)>>,
   <<Edge("uint8", s), Fill("uint8", s, 1), Edge("uint8", s)>>,
   <<Edge("float64", <<s[1], s[2] + 1>>), Fill("float64", s, 1), Edge("float64", s)>>}

\* Fields u, v offered: a warm start, zero fields, and a u of float32.
SweepFields(s) ==
  {<<Ramp("float64", s), Fill("float64", s, 2)>>,
   <<Fill("float64", s, 0), Fill("float64", s, 0)>>,
   <<Fill("float32", s, 0), Fill("float64", s, 0)>>}

\* The in-place binding of the solver f asked for n iterations.
Call2(f, alpha, n, i, uv) ==
  IF f.kind = "vanilla" THEN vanillahs_call2(f, alpha, n, i[1], i[2], uv[1], uv[2])
  ELSE hs_call2(f, alpha, n, i[1], i[2], i[3], uv[1], uv[2])

\* The in-place call up to the first iteration: a call the binding or the
\* core refuses, or one of no iteration, is over at once; otherwise the core
\* holds the gradients and is about to average.
SweepEnter ==
  /\ pc = "idle"
  /\ \E alpha \in Alphas, n \in Iterations :
     \E i \in SweepFrames(self.shape), uv \in SweepFields(self.shape) :
       LET entry == Call2(self, alpha, IF n > 0 THEN 0 ELSE n, i, uv)
       IN /\ call' = FlowCall("run_inplace", alpha, n, i[1], i[2],
                              IF self.kind = "vanilla" THEN Absent ELSE i[3],
                              uv[1], uv[2])
          /\ IF n <= 0 \/ entry.err # "none"
             THEN /\ FlowLeave(entry)
                  /\ UNCHANGED sweep
             ELSE /\ pc' = "average"
                  /\ err' = "none"
                  /\ outs' = <<entry.u, entry.v>>
                  /\ result' = <<>>
                  /\ invoked' = <<[entry.invoked[1] EXCEPT !.iterations = n]>>
                  /\ sweep' = [k |-> 0,
                               g |-> GradientsOf(self.kind, i[1].data, i[2].data,
                                                 i[3].data, self.shape),
                               bars |-> <<>>, pending |-> {}]
                  /\ UNCHANGED <<self, crashed, ret, mem, refs>>

\* Step 1 of an iteration: ubar and vbar of the whole fields go to scratch.
SweepAverage ==
  /\ pc = "average"
  /\ pc' = "update"
  /\ sweep' = [sweep EXCEPT
                !.bars = <<LaplacianOf(self.kind, outs[1].data, self.shape),
                           LaplacianOf(self.kind, outs[2].data, self.shape)>>,
                !.pending = Idx(self.shape)]
  /\ UNCHANGED <<self, crashed, call, ret, err, outs, result, invoked, mem, refs>>

\* Steps 2 to 5 for one pixel not yet updated, taken in any order; the last
\* pixel ends the iteration, and the last iteration the call.
SweepPixel ==
  /\ pc = "update"
  /\ \E p \in sweep.pending :
       LET uv == Flow_pixel(self, call.alpha, sweep.g, sweep.bars,
                            <<outs[1].data, outs[2].data>>, p)
           last == sweep.pending = {p}
           over == last /\ sweep.k + 1 >= call.iterations
       IN /\ outs' = <<Written(outs[1], uv[1]), Written(outs[2], uv[2])>>
          /\ pc' = IF over THEN "done" ELSE IF last THEN "average" ELSE "update"
          /\ sweep' = IF over THEN [NoSweep EXCEPT !.k = sweep.k + 1]
                      ELSE [sweep EXCEPT !.pending = sweep.pending \ {p},
                                         !.k = IF last THEN sweep.k + 1 ELSE sweep.k]
  /\ UNCHANGED <<self, crashed, call, ret, err, result, invoked, mem, refs>>

SweepNext == SweepEnter \/ SweepAverage \/ SweepPixel \/ Return

SweepSpec == FlowInit /\ [][SweepNext]_vars

(* ---------------- allocations and array references -------------------- *)

\* Largest number of core estimators allocated over the life of one object.
MaxInits == 2

\* new T(...): a block at a new address, not deleted so far. The heap is the
\* sequence of its blocks, each the number of times it was deleted.
Allocate(heap) == Append(heap, 0)

\* delete p: nothing for the null pointer, else one more deletion of block p.
Delete(heap, p) == IF p = 0 THEN heap ELSE [heap EXCEPT ![p] = heap[p] + 1]

\* self->cxx = new CentralGradient(...) of tp_init, reached when the call
\* leaves without error.
CentralGradient_init_mem(m, o) ==
  IF o.ret = 0 /\ o.err = "none"
  THEN [m EXCEPT !.cxx = Len(m.heap) + 1, !.heap = Allocate(m.heap)]
  ELSE m

\* self->cxx = new SobelGradient(shape); self->parent.cxx = self->cxx, and
\* the same in the other two fixed variants.
SobelGradient_init_mem(m, o) ==
  IF o.ret = 0 /\ o.err = "none"
  THEN [m EXCEPT !.cxx = Len(m.heap) + 1, !.parent_cxx = Len(m.heap) + 1,
                 !.heap = Allocate(m.heap)]
  ELSE m

\* tp_dealloc of the base type.
PyBobIpOptflowCentralGradient_delete(m) ==
  [m EXCEPT !.heap = Delete(m.heap, m.cxx), !.obj = "freed"]

\* tp_dealloc of a fixed variant.
PyBobIpOptflowSobelGradient_delete(m) ==
  [m EXCEPT !.parent_cxx = 0, !.heap = Delete(m.heap, m.cxx), !.obj = "freed"]

\* The arguments a parse converts before it stops: all that were passed when
\* each converts, else those before the first that does not.
Converted(args) ==
  LET bad == {i \in 1..Len(args) : args[i].kind = "object"}
      stop == IF bad = {} THEN Len(args) + 1
              ELSE CHOOSE i \in bad : \A j \in bad : i <= j
  IN [failed |-> bad # {},
      n |-> Cardinality({i \in 1..(stop - 1) : Converts(args[i])})]

\* References of a PyArg_ParseTupleAndKeywords with "O&" converters followed
\* by make_safe of each: a parse that fails returns at once, and what it had
\* converted is released only when the converters support cleanup; after a
\* parse that succeeds the guards release every reference on every return.
ParsedSafe(args, cleanup) ==
  IF Converted(args).failed
  THEN [acquired |-> Converted(args).n,
        released |-> IF cleanup THEN Converted(args).n ELSE 0]
  ELSE [acquired |-> Converted(args).n, released |-> Converted(args).n]

\* References of a kernel setter: PyBlitzArray_Converter(o, &kernel) and no
\* release of kernel on any return.
Setter_refs(o) ==
  IF ~Converts(o) THEN NoRefs ELSE [acquired |-> 1, released |-> 0]

\* References of self.name = value.
SetAttr_refs(self_, name, value) ==
  IF HasAttr(self_.ob_type, name) /\ name \in {"difference", "average"}
  THEN Setter_refs(value) ELSE NoRefs

\* Kernels offered where allocations and references are followed: one the
\* core accepts, one it refuses, one the binding refuses, one no array.
LifeKernels ==
  {Kern("float64", R(1), R(0), R(-1)), Kern("float64", R(1), NaN, R(-1)),
   Arr("float64", <<2>>, [p \in Idx(<<2>>) |-> R(1)]), NotAnArray}

\* Image triplets offered there: one that passes, one whose second image is
\* no array.
LifeTriplets(s) ==
  {<<Ramp("float64", s), Fill("float64", s, 3), Ramp("float64", s)>>,
   <<Ramp("float64", s), NotAnArray, Ramp("float64", s)>>}

\* Outputs offered there: none, all three, and two of which one is no array.
LifeOutputs(s) ==
  {<<Absent, Absent, Absent>>,
   <<Fill("float64", s, 7), Fill("float64", s, 7), Fill("float64", s, 7)>>,
   <<Fill("float64", s, 7), NotAnArray, Absent>>}

\* What a call on a live object leaves, allocations and references included.
LifeLeave(o, m, r) ==
  /\ pc' = "done"
  /\ self' = o.self
  /\ crashed' = o.crash
  /\ ret' = o.ret
  /\ err' = o.err
  /\ outs' = <<>>
  /\ result' = <<>>
  /\ invoked' = <<>>
  /\ mem' = m
  /\ refs' = r
  /\ UNCHANGED sweep

\* tp_init of the base type, on a new object or again on a constructed one.
LifeInit ==
  /\ pc = "idle" /\ mem.obj = "live"
  /\ self.ob_type = "CentralGradient"
  /\ Len(mem.heap) < MaxInits
  /\ \E diff \in LifeKernels, avg \in LifeKernels, s \in Shapes, cleanup \in BOOLEAN :
       LET o == PyBobIpOptflowCentralGradient_init(self, diff, avg, s[1], s[2])
       IN /\ call' = [op |-> "init", self |-> self, difference |-> diff,
                      average |-> avg, shape |-> s]
          /\ LifeLeave(o, CentralGradient_init_mem(mem, o),
                       ParsedSafe(<<diff, avg>>, cleanup))

\* tp_init of a fixed variant, likewise.
LifeInitFixed ==
  /\ pc = "idle" /\ mem.obj = "live"
  /\ self.ob_type \in FixedTypes
  /\ Len(mem.heap) < MaxInits
  /\ \E s \in Shapes :
       /\ call' = [op |-> "init", self |-> self, shape |-> s]
       /\ LifeLeave(FixedInit(self.ob_type, s),
                    SobelGradient_init_mem(mem, FixedInit(self.ob_type, s)), NoRefs)

LifeSetDifference ==
  /\ pc = "idle" /\ mem.obj = "live"
  /\ \E o \in LifeKernels :
       /\ call' = [op |-> "setDifference", self |-> self, o |-> o]
       /\ LifeLeave(PyObject_SetAttr(self, "difference", o), mem,
                    SetAttr_refs(self, "difference", o))

LifeSetAverage ==
  /\ pc = "idle" /\ mem.obj = "live"
  /\ \E o \in LifeKernels :
       /\ call' = [op |-> "setAverage", self |-> self, o |-> o]
       /\ LifeLeave(PyObject_SetAttr(self, "average", o), mem,
                    SetAttr_refs(self, "average", o))

LifeEvaluate ==
  /\ pc = "idle" /\ mem.obj = "live"
  /\ \E s \in ConfiguredShapes :
     \E images \in LifeTriplets(s), outputs \in LifeOutputs(s), cleanup \in BOOLEAN :
       LET o == PyBobIpOptflowCentralGradient_evaluate(
                  self, images[1], images[2], images[3],
                  outputs[1], outputs[2], outputs[3])
       IN /\ call' = [op |-> "evaluate", self |-> self, image1 |-> images[1],
                      image2 |-> images[2], image3 |-> images[3],
                      ex |-> outputs[1], ey |-> outputs[2], et |-> outputs[3]]
          /\ pc' = "done"
          /\ self' = self
          /\ crashed' = o.crash
          /\ ret' = o.ret
          /\ err' = o.err
          /\ outs' = <<o.ex, o.ey, o.et>>
          /\ result' = o.result
          /\ invoked' = o.invoked
          /\ refs' = ParsedSafe(images \o outputs, cleanup)
          /\ UNCHANGED <<sweep, mem>>

\* The last reference to the object goes: tp_dealloc of its type.
LifeDealloc ==
  /\ pc = "idle" /\ mem.obj = "live"
  /\ call' = [op |-> "dealloc", self |-> self]
  /\ pc' = "done"
  /\ mem' = IF self.ob_type = "CentralGradient"
            THEN PyBobIpOptflowCentralGradient_delete(mem)
            ELSE PyBobIpOptflowSobelGradient_delete(mem)
  /\ ret' = 0
  /\ err' = "none"
  /\ outs' = <<>>
  /\ result' = <<>>
  /\ invoked' = <<>>
  /\ refs' = NoRefs
  /\ UNCHANGED <<self, crashed, sweep>>

LifeNext ==
  \/ LifeInit \/ LifeInitFixed \/ LifeSetDifference \/ LifeSetAverage
  \/ LifeEvaluate \/ LifeDealloc \/ Return

LifeSpec == FamilyInit /\ [][LifeNext]_vars

(* ------------------------------- claims -------------------------------- *)

\* An array argument whose shape is not the configured (H, W).
Misshaped(a) == a.kind = "array" /\ a.shape # self.cxx.shape

\* A finished evaluate call on a configured estimator.
Evaluated == pc = "done" /\ call.op = "evaluate" /\ ~self.cxx.null

\* C1: evaluate on an estimator configured for (H, W), given any image or any
\* supplied ex, ey, et of another shape, raises an error, does not run the
\* core functor and leaves the caller's ex, ey, et as they were passed.
C1_MisshapedRejected ==
  (Evaluated /\ \E a \in {call.image1, call.image2, call.image3,
                          call.ex, call.ey, call.et} : Misshaped(a))
    => /\ ret = 0
       /\ err # "none"
       /\ invoked = <<>>
       /\ result = <<>>
       /\ outs = <<call.ex, call.ey, call.et>>

\* C1 witness: the images pass, ex and ey pass, et alone has another shape.
C1_Witness ==
  /\ Evaluated
  /\ \A a \in {call.image1, call.image2, call.image3, call.ex, call.ey} :
       IsImage2D(a) /\ ~Misshaped(a)
  /\ IsImage2D(call.et) /\ Misshaped(call.et)
  /\ err = "RuntimeError"
  /\ outs[3] = call.et

\* A value that is a 1-D float64 array of exactly 3 elements.
WellFormedKernel(o) == o.kind = "array" /\ o.type_num = "float64" /\ o.shape = <<3>>

\* C2: init given a difference or average kernel that is no 1-D float64 array
\* of 3 elements returns -1 with an error set and creates no estimator; and
\* whenever init returns 0, no error is set and cxx is not null.
C2_InitReportsFailure ==
  (pc = "done" /\ call.op = "init")
    => /\ (~WellFormedKernel(call.difference) \/ ~WellFormedKernel(call.average))
            => (ret = -1 /\ err # "none" /\ self = call.self)
       /\ ret = 0 => (err = "none" /\ ~self.cxx.null)

\* C3: a kernel setter given a value that is no 1-D float64 array of 3
\* elements returns -1 with an error set and leaves the kernels unchanged.
C3_SetterReportsFailure ==
  (pc = "done" /\ call.op \in {"setDifference", "setAverage"}
     /\ ~WellFormedKernel(call.o))
    => (ret = -1 /\ err # "none" /\ self = call.self)

\* C10: a 3-element float64 kernel with a NaN or infinite entry is refused by
\* init and by both kernel setters with a failure return and an error set, the
\* object is left as it was, and no live estimator holds a non-finite entry.
C10_NonFiniteKernelRefused ==
  /\ (pc = "done" /\ call.op = "init"
        /\ WellFormedKernel(call.difference) /\ WellFormedKernel(call.average)
        /\ (~AllFinite(call.difference) \/ ~AllFinite(call.average)))
       => (ret = -1 /\ err # "none" /\ self = call.self)
  /\ (pc = "done" /\ call.op \in {"setDifference", "setAverage"}
        /\ WellFormedKernel(call.o) /\ ~AllFinite(call.o) /\ ~crashed)
       => (ret = -1 /\ err # "none" /\ self = call.self)
  /\ ~self.cxx.null
       => \A p \in Idx(<<3>>) : IsFinite(self.cxx.diff[p]) /\ IsFinite(self.cxx.avg[p])

\* C10 witness: a live estimator has just refused a kernel holding a NaN.
C10_Witness ==
  /\ pc = "done"
  /\ call.op = "setDifference"
  /\ ~self.cxx.null
  /\ WellFormedKernel(call.o)
  /\ \E p \in Idx(<<3>>) : call.o.data[p] = NaN
  /\ ret = -1
  /\ err = "RuntimeError"

\* A finished call of the named solver operation.
Called(ops) == pc = "done" /\ call.op \in ops

\* The arrays among the given arguments of the call.
Given(args) == {a \in args : a.kind = "array"}

CallFrames == Given({call.i1, call.i2, call.i3})

CallFields == Given({call.u, call.v})

\* Every given array is 2-D with the element type T.
AllOf(arrays, T) == \A a \in arrays : a.type_num = T /\ a.ndim = 2

\* Frames of one supported element type, fields of float64, a count that
\* converts to size_t.
Supported ==
  /\ AllOf(CallFrames, "float64") \/ AllOf(CallFrames, "uint8")
  /\ AllOf(CallFields, "float64")
  /\ call.iterations >= 0

\* Every given array has the solver's configured shape.
Shaped == \A a \in CallFrames \cup CallFields : a.shape = self.shape

\* The float64 array with the shape and values of a.
AsFloat64(a) == IF a.kind = "array" THEN [a EXCEPT !.type_num = "float64"] ELSE a

\* The fields the core solver leaves when started from <<u, v>> on the
\* frames of the call.
Solved(u, v) ==
  Iterate(self.kind, call.alpha,
          GradientsOf(self.kind, call.i1.data, call.i2.data, call.i3.data, self.shape),
          <<u.data, v.data>>, call.iterations, self.shape)

\* What run_inplace of the solver leaves for the call's frames, started from
\* zero fields of the shape of the first frame.
InplaceFromZero ==
  IF self.kind = "vanilla"
  THEN vanillahs_call2(self, call.alpha, call.iterations, call.i1, call.i2,
                       Fill("float64", call.i1.shape, 0),
                       Fill("float64", call.i1.shape, 0))
  ELSE hs_call2(self, call.alpha, call.iterations, call.i1, call.i2, call.i3,
                Fill("float64", call.i1.shape, 0), Fill("float64", call.i1.shape, 0))

\* C4: for either solver and every supported input, run raises exactly when
\* run_inplace started from zero fields raises, and otherwise returns the
\* (u, v) that run_inplace leaves in those fields.
C4_RunEqualsRunInplace ==
  (Called({"run"}) /\ Supported)
    => /\ err = InplaceFromZero.err
       /\ InplaceFromZero.err = "none"
            => result = <<InplaceFromZero.u, InplaceFromZero.v>>

\* C5: a run_inplace that returns has handed the core the caller's u and v
\* with their values at call time and the pixel values of the caller's
\* frames, and the caller's same two arrays then hold the fields the solver
\* reaches from that start.
C5_WarmStartInPlace ==
  (Called({"run_inplace"}) /\ err = "none")
    => /\ Len(invoked) = 1
       /\ invoked[1].u = call.u
       /\ invoked[1].v = call.v
       /\ invoked[1].i1.data = call.i1.data
       /\ invoked[1].i2.data = call.i2.data
       /\ invoked[1].i3.data = call.i3.data
       /\ outs = <<[call.u EXCEPT !.data = Solved(call.u, call.v)[1]],
                   [call.v EXCEPT !.data = Solved(call.u, call.v)[2]]>>
       /\ result = <<>>

\* C5 witness: one step from a warm start that is not zero has changed the
\* caller's u, to a field the zero start does not give.
C5_Witness ==
  /\ Called({"run_inplace"})
  /\ err = "none"
  /\ call.iterations = 1
  /\ \E p \in Idx(self.shape) : call.u.data[p] # R(0)
  /\ outs[1] # call.u
  /\ outs[1].data # Solved(Fill("float64", self.shape, 0), call.v)[1]

\* C6: in run_inplace, eval_eb and flow_error called with float64 fields, the
\* element type of image1 picks the branch: float64 frames reach the core as
\* they were passed, uint8 frames reach it as float64 arrays of the same
\* values, a frame that is not of image1's type stops the call before the
\* core, and any other type of image1 raises TypeError with the core not
\* called and u, v as they were.
C6_DispatchOnImage1 ==
  (Called({"run_inplace", "eval_eb", "flow_error"})
     /\ AllOf(CallFields, "float64") /\ call.iterations >= 0)
    => /\ AllOf(CallFrames, "float64")
            => /\ Len(invoked) = 1
               /\ invoked[1].i1 = call.i1
               /\ invoked[1].i2 = call.i2
               /\ invoked[1].i3 = call.i3
       /\ AllOf(CallFrames, "uint8")
            => /\ Len(invoked) = 1
               /\ invoked[1].i1 = AsFloat64(call.i1)
               /\ invoked[1].i2 = AsFloat64(call.i2)
               /\ invoked[1].i3 = AsFloat64(call.i3)
       /\ (call.i1.type_num \in {"float64", "uint8"}
             /\ ~AllOf(CallFrames, call.i1.type_num))
            => /\ err = "RuntimeError"
               /\ invoked = <<>>
               /\ outs = <<call.u, call.v>>
       /\ call.i1.type_num \notin {"float64", "uint8"}
            => /\ err = "TypeError"
               /\ invoked = <<>>
               /\ result = <<>>
               /\ outs = <<call.u, call.v>>

\* C6 witness: eval_eb on uint8 frames has returned, the core having been
\* handed float64 frames.
C6_Witness ==
  /\ Called({"eval_eb"})
  /\ AllOf(CallFrames, "uint8")
  /\ err = "none"
  /\ result # <<>>
  /\ invoked[1].i1.type_num = "float64"
  /\ invoked[1].i1.data = call.i1.data

\* C7: run, run_inplace, eval_ec2 and eval_eb on a solver of shape (H, W),
\* given otherwise supported arguments of which one has another shape, raise
\* a shape error and write nothing.
C7_ShapeErrorRaised ==
  (Called({"run", "run_inplace", "eval_ec2", "eval_eb"}) /\ Supported
     /\ (call.op \in {"run", "run_inplace"} => IsFinite(call.alpha))
     /\ ~Shaped)
    => /\ err = "ShapeError"
       /\ result = <<>>
       /\ outs = <<call.u, call.v>>

\* C8: run and run_inplace given a NaN or infinite alpha, with arguments
\* otherwise supported and of the configured shape, raise an argument error
\* and leave u and v as they were.
C8_NonFiniteAlphaRefused ==
  (Called({"run", "run_inplace"}) /\ Supported /\ Shaped /\ ~IsFinite(call.alpha))
    => /\ err = "ArgumentError"
       /\ result = <<>>
       /\ outs = <<call.u, call.v>>

\* C9: with supported arguments of the configured shape and a finite alpha,
\* run_inplace with 0 iterations leaves u and v as they were, run with 0
\* iterations returns two zero fields, and a count N applies N update steps.
C9_IterationCount ==
  (Called({"run", "run_inplace"}) /\ Supported /\ Shaped /\ IsFinite(call.alpha))
    => /\ err = "none"
       /\ (call.op = "run_inplace" /\ call.iterations = 0)
            => outs = <<call.u, call.v>>
       /\ (call.op = "run" /\ call.iterations = 0)
            => result = <<Fill("float64", self.shape, 0), Fill("float64", self.shape, 0)>>
       /\ call.op = "run_inplace"
            => /\ outs[1].data = Solved(call.u, call.v)[1]
               /\ outs[2].data = Solved(call.u, call.v)[2]
       /\ call.op = "run"
            => /\ Len(result) = 2
               /\ result[1].data = Solved(Fill("float64", self.shape, 0),
                                          Fill("float64", self.shape, 0))[1]
               /\ result[2].data = Solved(Fill("float64", self.shape, 0),
                                          Fill("float64", self.shape, 0))[2]

\* An optional argument that the caller passed.
Supplied(a) == a.kind # "absent"

\* C11: evaluate on a constructed estimator, given at least one but not all
\* three of ex, ey, et, raises an exception, does not call the core functor
\* and leaves the supplied outputs as they were.
C11_AllOrNoneRequired ==
  (Evaluated
     /\ (\E a \in {call.ex, call.ey, call.et} : Supplied(a))
     /\ (\E a \in {call.ex, call.ey, call.et} : ~Supplied(a)))
    => /\ ret = 0
       /\ err # "none"
       /\ invoked = <<>>
       /\ result = <<>>
       /\ outs = <<call.ex, call.ey, call.et>>

\* C11 witness: the images pass every check, ey and et are well-formed and ex
\* is missing; the all-or-none check has raised.
C11_Witness ==
  /\ Evaluated
  /\ \A a \in {call.image1, call.image2, call.image3, call.ey, call.et} :
       IsImage2D(a) /\ ~Misshaped(a)
  /\ ~Supplied(call.ex)
  /\ ret = 0
  /\ err = "RuntimeError"
  /\ outs = <<call.ex, call.ey, call.et>>

\* The three images of an evaluate call pass the type and shape checks.
ImagesPass ==
  \A a \in {call.image1, call.image2, call.image3} : IsImage2D(a) /\ ~Misshaped(a)

\* The gradient fields of the images of the call, under the estimator's
\* kernels.
Gradients ==
  CentralGradient_call(self.cxx, call.image1.data, call.image2.data, call.image3.data)

\* The float64 array of the configured shape holding 0 everywhere.
ZeroField == Fill("float64", self.cxx.shape, 0)

\* C12: evaluate given none of ex, ey, et and images that pass hands the core
\* three new float64 arrays of the images' shape holding 0 everywhere, and
\* returns exactly those three arrays, holding Ex, Ey, Et in this order.
C12_AllocatesAndReturns ==
  (Evaluated /\ ImagesPass /\ \A a \in {call.ex, call.ey, call.et} : ~Supplied(a))
    => /\ ret = 1
       /\ err = "none"
       /\ Len(invoked) = 1
       /\ invoked[1].ex = ZeroField
       /\ invoked[1].ey = ZeroField
       /\ invoked[1].et = ZeroField
       /\ ZeroField.shape = call.image1.shape
       /\ result = <<[ZeroField EXCEPT !.data = Gradients[1]],
                     [ZeroField EXCEPT !.data = Gradients[2]],
                     [ZeroField EXCEPT !.data = Gradients[3]]>>

\* C12 witness: an evaluate without outputs has returned three arrays, the
\* first of which no longer holds 0 everywhere.
C12_Witness ==
  /\ Evaluated
  /\ \A a \in {call.ex, call.ey, call.et} : ~Supplied(a)
  /\ ret = 1
  /\ Len(result) = 3
  /\ \E p \in Idx(self.cxx.shape) : result[1].data[p] # R(0)

\* An evaluate call given three outputs that, like the images, pass.
InPlaceEvaluate ==
  /\ Evaluated
  /\ ImagesPass
  /\ \A a \in {call.ex, call.ey, call.et} : IsImage2D(a) /\ ~Misshaped(a)

\* C13 as stated: evaluate given ex, ey, et writes the gradients into them
\* and returns no value.
C13_InPlaceReturnsNothing ==
  InPlaceEvaluate
    => /\ err = "none"
       /\ outs = <<[call.ex EXCEPT !.data = Gradients[1]],
                   [call.ey EXCEPT !.data = Gradients[2]],
                   [call.et EXCEPT !.data = Gradients[3]]>>
       /\ result = <<>>

\* C13 amended: evaluate given ex, ey, et hands them to the core, which
\* writes the gradients into them, and returns the tuple of those same three
\* arrays.
C13_InPlaceReturnsItsOutputs ==
  InPlaceEvaluate
    => /\ ret = 1
       /\ err = "none"
       /\ invoked[1].ex = call.ex
       /\ invoked[1].ey = call.ey
       /\ invoked[1].et = call.et
       /\ outs = <<[call.ex EXCEPT !.data = Gradients[1]],
                   [call.ey EXCEPT !.data = Gradients[2]],
                   [call.et EXCEPT !.data = Gradients[3]]>>
       /\ result = outs

\* C13 witness: an evaluate given three outputs has returned them, the first
\* changed by the call.
C13_Witness ==
  /\ InPlaceEvaluate
  /\ ret = 1
  /\ outs[1] # call.ex
  /\ result = outs

(* -------------------------- fixed variants ----------------------------- *)

\* C14: after any sequence of operations a constructed Sobel, Prewitt or
\* Isotropic estimator still holds its variant's kernels, difference
\* [1, 0, -1] and its own average: no setter call changes them.
C14_FixedKernelsKept ==
  (self.ob_type \in FixedTypes /\ ~self.cxx.null)
    => /\ self.cxx.diff = FixedDifference
       /\ self.cxx.avg = FixedAverage(self.ob_type)

\* A str call on a constructed estimator has returned.
Dumped == pc = "done" /\ call.op = "str" /\ ~call.self.cxx.null

\* C15: the dump of a constructed estimator of any of the four types holds
\* its class name, its configured shape and both its kernels as they are at
\* the time of the call, whatever setters were called before.
C15_StrShowsConfiguration ==
  Dumped
    => /\ ~crashed
       /\ ret = 1
       /\ Len(result) = 1
       /\ {"name", "shape", "difference", "average"} \subseteq DOMAIN result[1]
       /\ result[1].name = self.ob_type
       /\ result[1].shape = self.cxx.shape
       /\ result[1].difference = self.cxx.diff
       /\ result[1].average = self.cxx.avg

\* A dump of a Prewitt estimator after its shape and both kernels were set
\* anew.
C15_Witness ==
  /\ Dumped
  /\ self.ob_type = "PrewittGradient"
  /\ self.cxx.shape = <<2, 1>>
  /\ self.cxx.diff = Kern("float64", R(1), R(2), R(1)).data
  /\ self.cxx.avg = Kern("float64", R(1), R(0), R(-1)).data
  /\ Len(result) = 1

(* ---------------------------- round trips ------------------------------ *)

\* What evaluate returns for an image triplet when no outputs are passed.
EvaluateOf(obj, images) ==
  PyBobIpOptflowCentralGradient_evaluate(
    obj, images[1], images[2], images[3], Absent, Absent, Absent)

\* The receiver before and after the call gives the same result on every
\* triplet offered.
SameEvaluate ==
  \A images \in FamilyTriplets(self.cxx.shape) :
    EvaluateOf(self, images) = EvaluateOf(call.self, images)

\* The shape setter was called with the value the shape getter returns.
ShapeRoundTrip ==
  /\ Called({"setShape"})
  /\ ~call.self.cxx.null
  /\ call.shape = PyBobIpOptflowCentralGradient_getShape(call.self).value

\* C16: setting the shape of a constructed estimator to the value its shape
\* getter returns succeeds and changes nothing: shape, both kernels and the
\* result of a following evaluate are as before.
C16_SetShapeOfGetShape ==
  ShapeRoundTrip
    => /\ ret = 0
       /\ err = "none"
       /\ ~crashed
       /\ self = call.self
       /\ SameEvaluate

\* The round trip on an estimator whose height and width differ.
C16_Witness ==
  /\ ShapeRoundTrip
  /\ self.ob_type = "IsotropicGradient"
  /\ self.cxx.shape = <<1, 2>>
  /\ ret = 0

\* The difference setter of a parametric estimator was called with the value
\* its difference getter returns.
DifferenceRoundTrip ==
  /\ Called({"setDifference"})
  /\ call.self.ob_type = "CentralGradient"
  /\ ~call.self.cxx.null
  /\ call.o = PyBobIpOptflowCentralGradient_getDifference(call.self).value

\* C17: on a constructed parametric estimator, setting the difference kernel
\* to the value the difference getter returns succeeds and changes nothing:
\* shape, both kernels and the result of a following evaluate are as before.
C17_SetDifferenceOfGetDifference ==
  DifferenceRoundTrip
    => /\ ret = 0
       /\ err = "none"
       /\ ~crashed
       /\ self = call.self
       /\ SameEvaluate

\* The round trip on an estimator whose two kernels differ.
C17_Witness ==
  /\ DifferenceRoundTrip
  /\ self.cxx.diff = Kern("float64", R(1), R(2), R(1)).data
  /\ self.cxx.avg = Kern("float64", R(1), R(0), R(-1)).data
  /\ self.cxx.shape = <<2, 2>>
  /\ ret = 0

(* ------------------------- identical frames ---------------------------- *)

\* The vanilla solver was run in place on two identical frames of its shape,
\* from u = v = 0, for a count of iterations that is not negative.
IdenticalFromZero ==
  /\ Called({"run_inplace"})
  /\ self.kind = "vanilla"
  /\ call.i1 = call.i2
  /\ call.i1.shape = self.shape
  /\ call.i1.type_num \in {"float64", "uint8"}
  /\ call.u = Fill("float64", self.shape, 0)
  /\ call.v = Fill("float64", self.shape, 0)
  /\ call.iterations >= 0

AveragedConstant ==
  /\ Called({"laplacian_avg_hs", "laplacian_avg_hs_opencv"})
  /\ Bz(call.i1, "float64")
  /\ \A p, q \in DOMAIN call.i1.data : call.i1.data[p] = call.i1.data[q]

KernelSum(k) == Add(Add(k[<<1>>], k[<<2>>]), k[<<3>>])

\* An evaluate call on three equal images that hold the same value at every
\* pixel has returned its gradients.
UniformTriplet ==
  /\ Called({"evaluate"})
  /\ err = "none"
  /\ ret = 1
  /\ call.image1 = call.image2
  /\ call.image2 = call.image3
  /\ \A p, q \in DOMAIN call.image1.data : call.image1.data[p] = call.image1.data[q]

\* The three returned gradient fields hold c at every pixel.
GradientsAre(c) ==
  \A k \in 1..3 : \A p \in Idx(call.image1.shape) : result[k].data[p] = c

Interior(p, shape) ==
  /\ 1 < p[1] /\ p[1] < shape[1]
  /\ 1 < p[2] /\ p[2] < shape[2]

\* evaluate of a Sobel estimator has returned the gradients of a triplet
\* whose middle frame holds an impulse at an interior pixel, the other two
\* frames being zero.
SobelImpulse ==
  /\ Called({"evaluate"})
  /\ call.self.ob_type = "SobelGradient"
  /\ call.frame = 2
  /\ Interior(call.at, ScenarioShape)
  /\ err = "none"

\* C21: for the triplet zeros, impulse at the centre, zeros, the Sobel
\* estimator gives Ex = Ey = 0 at every pixel and Et = 2 at the pixel of the
\* impulse.
C21_SobelImpulseGradients ==
  SobelImpulse
    => /\ \A p \in Idx(ScenarioShape) :
            result[1].data[p] = R(0) /\ result[2].data[p] = R(0)
       /\ result[3].data[call.at] = R(2)

\* C21 amended: Et is 0 at every pixel; Ex is 0 on the column of the impulse
\* and 4 in magnitude, with opposite signs, at the pixels left and right of
\* it; Ey is 0 on the row of the impulse and 4 in magnitude, with opposite
\* signs, at the pixels above and below it.
C21_SobelImpulseSymmetry ==
  SobelImpulse
    => /\ \A p \in Idx(ScenarioShape) : result[3].data[p] = R(0)
       /\ \A p \in Idx(ScenarioShape) :
            /\ p[2] = call.at[2] => result[1].data[p] = R(0)
            /\ p[1] = call.at[1] => result[2].data[p] = R(0)
       /\ result[1].data[<<call.at[1], call.at[2] - 1>>] \in {R(4), R(-4)}
       /\ result[1].data[<<call.at[1], call.at[2] + 1>>]
            = Neg(result[1].data[<<call.at[1], call.at[2] - 1>>])
       /\ result[2].data[<<call.at[1] - 1, call.at[2]>>] \in {R(4), R(-4)}
       /\ result[2].data[<<call.at[1] + 1, call.at[2]>>]
            = Neg(result[2].data[<<call.at[1] - 1, call.at[2]>>])

\* The scenario with the impulse at pixel (2, 2): Et is 0 there and Ex is
\* not 0 beside it.
C21_Witness ==
  /\ SobelImpulse
  /\ call.at = <<2, 2>>
  /\ call.self.cxx.avg = FixedAverage("SobelGradient")
  /\ result[3].data[<<2, 2>>] = R(0)
  /\ result[1].data[<<2, 1>>] # R(0)

(* --------------------------- kernel mirroring -------------------------- *)

\* evaluate of an estimator whose difference kernel is [+1, 0, -1] has
\* returned the gradients of a triplet whose middle frame holds an impulse at
\* an interior pixel.
DifferencedImpulse ==
  /\ Called({"evaluate"})
  /\ call.self.cxx.diff = FixedDifference
  /\ call.frame = 2
  /\ Interior(call.at, ScenarioShape)
  /\ err = "none"

\* The weight the two averaging passes give the row and the frame of the
\* impulse: the centre tap, twice.
CentreWeight == Mul(call.self.cxx.avg[<<2>>], call.self.cxx.avg[<<2>>])

ZeroDisplacement ==
  /\ Called({"flow_error"})
  /\ call.i1 = call.i2
  /\ call.i1.type_num \in {"float64", "uint8"}
  /\ call.u = Fill("float64", call.i1.shape, 0)
  /\ call.v = Fill("float64", call.i1.shape, 0)

\* C23: flow_error(i, i, u, v) with u = v = 0 everywhere succeeds and is 0 at
\* every pixel of the frame, boundary pixels included.
C23_ZeroDisplacementNoError ==
  ZeroDisplacement =>
    /\ err = "none"
    /\ Len(result) = 1
    /\ result[1].shape = call.i1.shape
    /\ \A p \in Idx(call.i1.shape) : result[1].data[p] = R(0)

\* The frame of the call is not uniform, so a sample taken anywhere but at
\* the pixel itself would differ from it.
C23_Witness ==
  /\ ZeroDisplacement
  /\ err = "none"
  /\ \E p, q \in Idx(call.i1.shape) : call.i1.data[p] # call.i1.data[q]

(* order of the checks of evaluate *)

\* The images and the outputs of the evaluate call.
CallImages == {call.image1, call.image2, call.image3}

CallOutputs == {call.ex, call.ey, call.et}

\* A finished evaluate call on a configured estimator whose arguments are
\* all arrays, or absent for the optional ones.
EvaluatedArrays ==
  /\ Evaluated
  /\ \A a \in CallImages : Converts(a)
  /\ \A a \in CallOutputs : Converts(a) \/ ~Supplied(a)

\* The exception of the first stage that fails, the stages taken in the
\* order: types of the images, shapes of the images, all-or-none, types of
\* the outputs, shapes of the outputs.
FirstFailure ==
  IF \E a \in CallImages : ~IsImage2D(a) THEN "TypeError"
  ELSE IF \E a \in CallImages : Misshaped(a) THEN "RuntimeError"
  ELSE IF (\E a \in CallOutputs : Supplied(a)) /\ (\E a \in CallOutputs : ~Supplied(a))
    THEN "RuntimeError"
  ELSE IF \E a \in CallOutputs : Supplied(a) /\ ~IsImage2D(a) THEN "TypeError"
  ELSE IF \E a \in CallOutputs : Supplied(a) /\ Misshaped(a) THEN "RuntimeError"
  ELSE "none"

\* C26: evaluate raises the exception of the first failing stage, the stages
\* being types of image1..3 (TypeError), their shapes (RuntimeError), the
\* all-or-none rule (RuntimeError), types of ex, ey, et (TypeError), their
\* shapes (RuntimeError); the core functor is called exactly when no stage
\* fails.
C26_FirstFailureReported ==
  EvaluatedArrays =>
    /\ err = FirstFailure
    /\ (invoked # <<>>) <=> (FirstFailure = "none")
    /\ Len(invoked) <= 1

\* C26 witness: two stages fail with different exceptions and the earlier
\* one is reported: an image of the wrong shape with an output of the wrong
\* type, or an output of the wrong shape before one of the wrong type.
C26_Witness ==
  /\ EvaluatedArrays
  /\ \/ /\ \A a \in CallImages : IsImage2D(a)
        /\ \E a \in CallImages : Misshaped(a)
        /\ \A a \in CallOutputs : Supplied(a)
        /\ \E a \in CallOutputs : ~IsImage2D(a)
        /\ err = "RuntimeError"
     \/ /\ \A a \in CallImages : IsImage2D(a) /\ ~Misshaped(a)
        /\ Misshaped(call.ex)
        /\ Supplied(call.ey) /\ ~IsImage2D(call.ey)
        /\ Supplied(call.et)
        /\ err = "TypeError"
  /\ invoked = <<>>

(* Jacobi update *)

\* An in-place solver call that has entered its iterations.
Sweeping ==
  /\ call.op = "run_inplace"
  /\ pc \in {"average", "update"} \/ (pc = "done" /\ err = "none" /\ call.iterations > 0)

\* The fields after the first k whole iterations of the call, each computed
\* from the fields of the iteration before.
AfterIterations(k) ==
  Iterate(self.kind, call.alpha,
          GradientsOf(self.kind, call.i1.data, call.i2.data, call.i3.data, self.shape),
          <<call.u.data, call.v.data>>, k, self.shape)

\* C24: whatever the order in which the pixels of an iteration are updated,
\* a pixel not yet updated holds its value of the previous iteration, an
\* updated one the value computed from the previous iteration's fields
\* alone, and the fields after each whole iteration are those of the
\* iteration before put through one update.
C24_JacobiUpdate ==
  Sweeping =>
    LET before == AfterIterations(sweep.k)
        after == IF pc = "update" THEN AfterIterations(sweep.k + 1) ELSE before
    IN \A c \in 1..2 : \A p \in Idx(self.shape) :
         outs[c].data[p] = IF p \in sweep.pending THEN before[c][p] ELSE after[c][p]

\* C24 witness: an iteration over more than one pixel is half done, and the
\* pixels already updated have changed the averages of those still to come.
C24_Witness ==
  /\ Sweeping
  /\ pc = "update"
  /\ sweep.pending # {} /\ sweep.pending # Idx(self.shape)
  /\ LaplacianOf(self.kind, outs[1].data, self.shape) # sweep.bars[1]

(* core estimators freed exactly once *)

\* C25: once the object is deallocated, after any inits, every core
\* estimator an init allocated has been deleted exactly once; and at no time
\* has one been deleted twice.
C25_FreedExactlyOnce ==
  /\ \A a \in 1..Len(mem.heap) : mem.heap[a] <= 1
  /\ mem.obj = "freed" => \A a \in 1..Len(mem.heap) : mem.heap[a] = 1

(* array references released *)

\* C27: a finished init, setDifference, setAverage or evaluate has released
\* every array reference its converters acquired.
C27_ReferencesReleased ==
  (Called({"init", "setDifference", "setAverage", "evaluate"}) /\ ~crashed)
    => refs.released = refs.acquired

====
